---- MODULE Spec2Model ----
(***************************************************************************)
(* xRate: threshold/hysteresis decision engine (_breach), the scheduled    *)
(* posting job (post_rate_job) and the state baseline (StateManager).      *)
(*                                                                         *)
(* Number representation.  Python floats handed to _breach are modelled as *)
(* integers counting 0.00001 ("raw" units, five decimals); percentages are *)
(* integers counting 0.001 percent.  _breach quantizes prices to four      *)
(* decimals and percentages to two decimals (ROUND_HALF_UP), so a          *)
(* quantized price counts 0.0001 and a quantized percentage counts 0.01    *)
(* percent.  Integer Toman amounts are whole numbers; n Toman is the raw   *)
(* value n * 100000.                                                       *)
(***************************************************************************)
EXTENDS Integers, Sequences, FiniteSets, TLC

VARIABLES
    breach_history,   \* jobs._breach_history: instrument -> "absent" | "none" | "up" | "down"
    reset_origin,     \* history: the direction that the last reset of an instrument cleared
    last,             \* history: the most recent direct call of _breach
    clock,            \* wall clock, minutes (datetime.now)
    provider_next_eligible, \* jobs._provider_next_eligible: provider -> <<known, minute>>
    lock,             \* jobs._post_rate_job_lock: 0 when free, else the invocation holding it
    inv,              \* every invocation of post_rate_job: "pending" | "skipped" | "running" | "returned"
    cyc,              \* locals of the invocation that runs (or last ran) the body of post_rate_job
    current_state,    \* StateManager._current_state, the baseline
    persisted,        \* content of the state file written by save_last
    stats,            \* StatsTracker._stats: total_posts, total_errors
    cmd,              \* locals of the /post handler (post_cmd) being served, if any
    last_gate,        \* history: the most recent direct call of _should_fetch_provider
    last_snapshot,    \* history: the most recent direct call of get_irr_snapshot
    cache,            \* adapter class -> its class attributes _cache_data, _cache_ts
    net,              \* history: adapter class -> its last request that was answered well
    last_fetch,       \* history: the most recent direct call of an adapter's fetch
    file,             \* what is at the path of the state file (settings.last_state_file)
    backup,           \* what is at the path of its copy, <state file>.corrupt
    tmp,              \* what is at the path of the temporary file of save_last
    proc,             \* the process: "up" or "down"
    last_store,       \* history: the most recent call of save_last, load_last, update_state
    last_tether,      \* history: the most recent direct call of _breach_tether_24h_ch
    last_used_provider, \* ProviderChain.last_used_provider: "none" | "brsapi" | "fastforex"
    last_chain,       \* history: the most recent call of RatesService.eur_usd
    requests,         \* RateLimiter._requests: identifier -> deque of timestamps
    blocked,          \* RateLimiter._blocked: identifier -> end of its block, -1 when absent
    granted,          \* history: identifier -> minutes, within its time_window, of the calls that returned True
    last_limit        \* history: the most recent call of is_allowed

breachVars == <<breach_history, reset_origin>>
jobVars == <<clock, provider_next_eligible, lock, inv, cyc, current_state, persisted, stats, cmd>>
callVars == <<last, last_gate, last_snapshot>>
adapterVars == <<cache, net, last_fetch>>
storeVars == <<file, backup, tmp, proc, last_store>>
chainVars == <<last_used_provider, last_chain>>
limiterVars == <<requests, blocked, granted, last_limit>>
utilVars == <<last_tether, chainVars, limiterVars>>
directVars == <<adapterVars, storeVars, utilVars>>
vars == <<breach_history, reset_origin, last, clock, provider_next_eligible, lock,
          inv, cyc, current_state, persisted, stats, cmd, last_gate, last_snapshot,
          directVars>>

\* Instruments that post_rate_job passes to _breach (jobs.py 367-384).
Instruments == {"usd", "eur", "gold", "eurusd"}

Directions == {"absent", "none", "up", "down"}

----------------------------------------------------------------------------
(* Decimal arithmetic of _breach                                           *)

Abs(x) == IF x >= 0 THEN x ELSE -x

\* Decimal.quantize(..., rounding=ROUND_HALF_UP): x counted in units, q units
\* per quantum; ties go away from zero.
HalfUp(x, q) ==
    IF x >= 0 THEN (x + q \div 2) \div q ELSE -(((-x) + q \div 2) \div q)

\* Decimal(str(curr)).quantize(Decimal('0.0001')): raw 0.00001 -> 0.0001
QuantizePrice(raw) == HalfUp(raw, 10)

\* Decimal(str(up_pct)).quantize(Decimal('0.01')): 0.001 percent -> 0.01 percent
QuantizePct(raw) == HalfUp(raw, 10)

CeilDiv(a, b) == (a + b - 1) \div b

\* 10000 * (curr_decimal - upper_bound), upper_bound = prev * (1 + up/100).
\* cq, pq are quantized prices, u a quantized percentage.
OverUpper(cq, pq, u) == (cq - pq) * 10000 - pq * u

\* 10000 * (lower_bound - curr_decimal), lower_bound = prev * (1 - down/100).
UnderLower(cq, pq, d) == (pq - cq) * 10000 - pq * d

IncreaseBreachStrict(cq, pq, u) == OverUpper(cq, pq, u) > 0

\* increase_breach = curr_decimal >= upper_bound
IncreaseBreach(cq, pq, u) == OverUpper(cq, pq, u) >= 0

\* decrease_breach = curr_decimal <= lower_bound
DecreaseBreach(cq, pq, d) == UnderLower(cq, pq, d) >= 0

BelowHysteresisUpperWide(cq, pq, u) == OverUpper(cq, pq, u) < 100 * pq

\* curr_decimal < upper_bound * 1.002, i.e. curr - upper_bound < upper_bound/500,
\* i.e. OverUpper * 500 < pq * (10000 + u); written with a quotient so that
\* no product leaves the 32-bit range.
BelowHysteresisUpper(cq, pq, u) ==
    OverUpper(cq, pq, u) < 20 * pq + CeilDiv(pq * u, 500)

\* curr_decimal > lower_bound * 0.998, i.e. lower_bound - curr < lower_bound/500,
\* i.e. UnderLower * 500 < pq * (10000 - d).
AboveHysteresisLower(cq, pq, d) ==
    UnderLower(cq, pq, d) < 20 * pq - ((pq * d) \div 500)

NearBaselineInclusive(cq, pq) == 200 * Abs(cq - pq) <= pq

\* abs(percent_change) < 0.5 with percent_change = (curr - prev) / prev * 100
NearBaseline(cq, pq) == 200 * Abs(cq - pq) < pq

SuppressedNever(cq, pq, u, d, dir) == FALSE

\* The early "return False" of the hysteresis block (jobs.py 85-96).
Suppressed(cq, pq, u, d, dir) ==
    IF dir = "up" /\ IncreaseBreach(cq, pq, u)
    THEN BelowHysteresisUpper(cq, pq, u)
    ELSE IF dir = "down" /\ DecreaseBreach(cq, pq, d)
         THEN AboveHysteresisLower(cq, pq, d)
         ELSE FALSE

NoBaselineSilent == FALSE

\* Return value of _breach when the baseline is not positive (jobs.py 67-68).
NoBaselineResult == TRUE

\* Return value of _breach(curr, prev, up_pct, down_pct) for an instrument whose
\* recorded direction is dir ("absent" when the instrument is "" or unknown).
BreachResult(curr, prev, up, down, dir) ==
    IF prev <= 0 THEN NoBaselineResult
    ELSE LET cq == QuantizePrice(curr)
             pq == QuantizePrice(prev)
             u  == QuantizePct(up)
             d  == QuantizePct(down)
         IN  IF Suppressed(cq, pq, u, d, dir) THEN FALSE
             ELSE IncreaseBreach(cq, pq, u) \/ DecreaseBreach(cq, pq, d)

\* Recorded direction of the instrument after the call (jobs.py 98-113).
BreachDirection(curr, prev, up, down, dir) ==
    IF prev <= 0 THEN dir
    ELSE LET cq == QuantizePrice(curr)
             pq == QuantizePrice(prev)
             u  == QuantizePct(up)
             d  == QuantizePct(down)
         IN  IF Suppressed(cq, pq, u, d, dir) THEN dir
             ELSE IF IncreaseBreach(cq, pq, u) THEN "up"
             ELSE IF DecreaseBreach(cq, pq, d) THEN "down"
             ELSE IF NearBaseline(cq, pq) THEN dir
             ELSE "none"

\* "if instrument and instrument in _breach_history": the empty instrument
\* name has no history.
RecordedDirection(h, instrument) ==
    IF instrument = "" THEN "absent" ELSE h[instrument]

HistoryAfterShared(h, curr, prev, up, down, instrument) ==
    IF instrument = "" THEN h
    ELSE [i \in DOMAIN h |-> BreachDirection(curr, prev, up, down, h[instrument])]

\* _breach_history after _breach(..., instrument): "if instrument:" guards
\* every write.
HistoryAfter(h, curr, prev, up, down, instrument) ==
    IF instrument = "" THEN h
    ELSE [h EXCEPT ![instrument] =
              BreachDirection(curr, prev, up, down, h[instrument])]

\* History variable: which direction a reset to None cleared.
OriginAfter(o, h, curr, prev, up, down, instrument) ==
    IF instrument = "" THEN o
    ELSE LET before == h[instrument]
             after  == BreachDirection(curr, prev, up, down, before)
         IN  IF after = before THEN o
             ELSE IF after = "none" THEN [o EXCEPT ![instrument] = before]
             ELSE [o EXCEPT ![instrument] = "absent"]

----------------------------------------------------------------------------
(* Tether rule, eligibility gate, state manager                            *)

BreachTetherStrict(ch, up, down) == ch > up \/ ch < -down

\* _breach_tether_24h_ch: plain float comparison, no rounding, no history.
\* ch, up, down are raw percentages (0.001 percent).
BreachTether24hCh(ch, up, down) == ch >= up \/ ch <= -down

Providers == {"brsapi", "fastforex", "navasan", "wallex"}

\* settings.*_cache_minutes, defaults
brsapi_cache_minutes == 15
fastforex_cache_minutes == 15
navasan_cache_minutes == 28
wallex_cache_minutes == 15

\* settings.margin_*_upper_pct / margin_*_lower_pct, defaults 1.0 and 2.0 for
\* every instrument, as raw percentages (0.001 percent)
margin_upper_pct == 1000
margin_lower_pct == 2000

ShouldFetchLate(ne, name, now) == ~ne[name].known \/ now > ne[name].at

\* _should_fetch_provider: the value returned
ShouldFetch(ne, name, now) == ~ne[name].known \/ now >= ne[name].at

\* _should_fetch_provider: _provider_next_eligible after the call
NextEligibleAfter(ne, name, ttl, now) ==
    IF ~ne[name].known THEN [ne EXCEPT ![name] = [known |-> TRUE, at |-> now]]
    ELSE IF now >= ne[name].at THEN [ne EXCEPT ![name] = [known |-> TRUE, at |-> now + ttl]]
    ELSE ne

\* "_should_fetch_provider(a, ta) or _should_fetch_provider(b, tb)": the
\* second gate is consulted only when the first returned false.
GateEither(ne, a, ta, b, tb, now) ==
    LET ne1 == NextEligibleAfter(ne, a, ta, now)
    IN  IF ShouldFetch(ne, a, now)
        THEN [fetch |-> TRUE, ne |-> ne1, log |-> <<[name |-> a, result |-> TRUE]>>]
        ELSE [fetch |-> ShouldFetch(ne1, b, now),
              ne |-> NextEligibleAfter(ne1, b, tb, now),
              log |-> <<[name |-> a, result |-> FALSE],
                        [name |-> b, result |-> ShouldFetch(ne1, b, now)]>>]

\* The three gate evaluations of a cycle, in program order (jobs.py 229-244).
CycleGates(ne, now) ==
    LET g1 == GateEither(ne, "brsapi", brsapi_cache_minutes,
                         "fastforex", fastforex_cache_minutes, now)
        g2 == GateEither(g1.ne, "brsapi", brsapi_cache_minutes,
                         "navasan", navasan_cache_minutes, now)
    IN  [eurusd |-> g1.fetch, snap |-> g2.fetch,
         tether |-> ShouldFetch(g2.ne, "wallex", now),
         ne |-> NextEligibleAfter(g2.ne, "wallex", wallex_cache_minutes, now),
         log |-> g1.log \o g2.log
                 \o <<[name |-> "wallex", result |-> ShouldFetch(g2.ne, "wallex", now)]>>]

\* StateManager._current_state is None
NoState == [exists |-> FALSE, usd_toman |-> 0, eur_toman |-> 0, gold_1g_toman |-> 0,
            eurusd_rate |-> 0, tether_price_toman |-> 0, tether_24h_ch |-> 0, ts |-> 0]

\* MarketState(...) as update_state builds it
MarketState(usd, eur, gold, fx, tp, tc, ts) ==
    [exists |-> TRUE, usd_toman |-> usd, eur_toman |-> eur, gold_1g_toman |-> gold,
     eurusd_rate |-> fx, tether_price_toman |-> tp, tether_24h_ch |-> tc, ts |-> ts]

\* A baseline that an earlier run of the program left in the state file:
\* 100 Toman for each of USD, EUR and gold, EUR/USD 1.00000, Tether 50 Toman.
StoredBaseline == MarketState(100, 100, 100, 100000, 50, 0, 0)

\* eur_usd() returned None / a rate (raw units)
\* provider: ProviderChain.last_used_provider
NoRate == [ok |-> FALSE, rate |-> 0, provider |-> ""]
Rates == {[ok |-> TRUE, rate |-> 100000, provider |-> "brsapi"],
          [ok |-> TRUE, rate |-> 100996, provider |-> "brsapi"],
          [ok |-> TRUE, rate |-> 102000, provider |-> "fastforex"]}

\* get_irr_snapshot() returned None / a snapshot (whole Toman)
NoSnap == [ok |-> FALSE, usd_toman |-> 0, eur_toman |-> 0, gold_1g_toman |-> 0,
           provider |-> ""]
Snaps == {[ok |-> TRUE, usd_toman |-> u, eur_toman |-> 100, gold_1g_toman |-> 100,
           provider |-> p] : u \in {100, 102}, p \in {"crawler1_bonbast", "navasan"}}

\* Wallex gave nothing / a price (whole Toman) and a 24h change (raw percentage)
NoTether == [ok |-> FALSE, price |-> 0, ch |-> 0]
Tethers == {[ok |-> TRUE, price |-> 50, ch |-> c] : c \in {500, 1500}}

\* The sources get_irr_snapshot tries, in its order, by the tag each puts on
\* a snapshot (crawler_service.py 61, 85; rates_service.py 185, 224).
IrrChain == <<"crawler1_bonbast", "crawler2_alanchand", "brsapi", "navasan">>

Fields == {"usd", "eur", "gold"}

\* What one source hands back: it raised, or for each of usd, eur, gold it
\* gave a number (has) or nothing (None for a crawler or BRS, a missing key
\* for Navasan).  A field that is not in has carries 0.
Reading(raised, has, usd, eur, gold) ==
    [raised |-> raised, has |-> has, usd |-> usd, eur |-> eur, gold |-> gold]

\* Python truth value of an Optional[int]
Truthy(r, k) == k \in r.has /\ r[k] /= 0

TaggedSnapshot(r, tag) ==
    [ok |-> TRUE, usd_toman |-> r.usd, eur_toman |-> r.eur, gold_1g_toman |-> r.gold,
     provider |-> tag]

\* "if result.usd_sell and result.eur_sell and result.gold_gram_sell"
\* (crawler_service.py 54, 78) and "if usd_toman and eur_toman and
\* gold_1g_toman" (rates_service.py 179), inside a try
AcceptsTruthy(r) == ~r.raised /\ \A k \in Fields : Truthy(r, k)

\* Navasan branch (rates_service.py 193-228): a raise or a NOT_FOUND key
\* gives None, three zeros give None, anything else is returned.
AcceptsNavasan(r) ==
    /\ ~r.raised
    /\ r.has = Fields
    /\ ~(r.usd = 0 /\ r.eur = 0 /\ r.gold = 0)

GetCrawlerSnapshotReversed(bonbast, alanchand) ==
    IF AcceptsTruthy(alanchand) THEN TaggedSnapshot(alanchand, IrrChain[2])
    ELSE IF AcceptsTruthy(bonbast) THEN TaggedSnapshot(bonbast, IrrChain[1])
    ELSE NoSnap

\* get_crawler_snapshot (crawler_service.py 34-94)
GetCrawlerSnapshot(bonbast, alanchand) ==
    IF AcceptsTruthy(bonbast) THEN TaggedSnapshot(bonbast, IrrChain[1])
    ELSE IF AcceptsTruthy(alanchand) THEN TaggedSnapshot(alanchand, IrrChain[2])
    ELSE NoSnap

\* get_irr_snapshot (rates_service.py 146-228)
GetIrrSnapshot(bonbast, alanchand, brsapi, navasan) ==
    IF GetCrawlerSnapshot(bonbast, alanchand).ok THEN GetCrawlerSnapshot(bonbast, alanchand)
    ELSE IF AcceptsTruthy(brsapi) THEN TaggedSnapshot(brsapi, IrrChain[3])
    ELSE IF AcceptsNavasan(navasan) THEN TaggedSnapshot(navasan, IrrChain[4])
    ELSE NoSnap

PropagatesRaise(r) == r.raised

\* Whether a raise of a source leaves the try block it happens in.  Each
\* source is constructed and asked inside a try whose handler is "except
\* Exception": it logs and goes on to the next source (crawler_service.py
\* 64-66, 88-90; rates_service.py 168-169, 189-190) or returns None
\* (rates_service.py 226-228); no handler raises again.  A raise of the
\* constructor, of the request and of the conversion of a value (_to_int)
\* all happen inside the same try and are the one case r.raised.
Propagates(r) == FALSE

\* get_irr_snapshot ends with an exception instead of a return value
GetIrrSnapshotRaises(bonbast, alanchand, brsapi, navasan) ==
    \/ Propagates(bonbast)
    \/ ~AcceptsTruthy(bonbast) /\ Propagates(alanchand)
    \/ ~GetCrawlerSnapshot(bonbast, alanchand).ok /\ Propagates(brsapi)
    \/ /\ ~GetCrawlerSnapshot(bonbast, alanchand).ok
       /\ ~AcceptsTruthy(brsapi)
       /\ Propagates(navasan)

\* The sources get_irr_snapshot called to produce snap: the chain up to the
\* one that gave the snapshot, the whole chain when it returned None.
IrrSourcesCalled(snap) ==
    {IrrChain[i] : i \in {j \in 1..Len(IrrChain) :
                            \A k \in 1..(j - 1) : ~snap.ok \/ IrrChain[k] /= snap.provider}}

\* The sources svc.eur_usd() called: ProviderChain asks its primary (BRS)
\* and, when that raised, its fallback (FastForex) (rates_service.py 68-93).
RateSourcesCalled(fx) ==
    IF fx.ok /\ fx.provider = "brsapi" THEN {"brsapi"} ELSE {"brsapi", "fastforex"}

\* Every source asked for data in a cycle whose gates gave g (jobs.py 229-253).
SourcesCalled(g, fx, snap) ==
    (IF g.eurusd THEN RateSourcesCalled(fx) ELSE {})
        \cup (IF g.snap THEN IrrSourcesCalled(snap) ELSE {})
        \cup (IF g.tether THEN {"wallex"} ELSE {})

\* an integer Toman amount as the raw price _breach receives
TomanRaw(n) == n * 100000

\* "_breach(...) if current_state.x > 0 else True" for each instrument of the
\* reading (jobs.py 357-395); h is _breach_history before the cycle's calls.
Triggers(snap, fx, tether, st, h) ==
    [usd    |-> snap.ok /\ (IF st.usd_toman > 0
                            THEN BreachResult(TomanRaw(snap.usd_toman), TomanRaw(st.usd_toman),
                                              margin_upper_pct, margin_lower_pct, h["usd"])
                            ELSE TRUE),
     eur    |-> snap.ok /\ (IF st.eur_toman > 0
                            THEN BreachResult(TomanRaw(snap.eur_toman), TomanRaw(st.eur_toman),
                                              margin_upper_pct, margin_lower_pct, h["eur"])
                            ELSE TRUE),
     gold   |-> snap.ok /\ (IF st.gold_1g_toman > 0
                            THEN BreachResult(TomanRaw(snap.gold_1g_toman), TomanRaw(st.gold_1g_toman),
                                              margin_upper_pct, margin_lower_pct, h["gold"])
                            ELSE TRUE),
     eurusd |-> fx.ok /\ (IF st.eurusd_rate > 0
                          THEN BreachResult(fx.rate, st.eurusd_rate,
                                            margin_upper_pct, margin_lower_pct, h["eurusd"])
                          ELSE TRUE),
     tether |-> tether.ok /\ BreachTether24hCh(tether.ch, margin_upper_pct, margin_lower_pct)]

NoTriggers == [usd |-> FALSE, eur |-> FALSE, gold |-> FALSE, eurusd |-> FALSE, tether |-> FALSE]

\* _breach_history after the cycle's _breach calls; an instrument is passed
\* to _breach only when it is in the reading and its baseline is positive.
HistoryAfterCycle(snap, fx, st, h) ==
    LET h1 == IF snap.ok /\ st.usd_toman > 0
              THEN HistoryAfter(h, TomanRaw(snap.usd_toman), TomanRaw(st.usd_toman),
                                margin_upper_pct, margin_lower_pct, "usd")
              ELSE h
        h2 == IF snap.ok /\ st.eur_toman > 0
              THEN HistoryAfter(h1, TomanRaw(snap.eur_toman), TomanRaw(st.eur_toman),
                                margin_upper_pct, margin_lower_pct, "eur")
              ELSE h1
        h3 == IF snap.ok /\ st.gold_1g_toman > 0
              THEN HistoryAfter(h2, TomanRaw(snap.gold_1g_toman), TomanRaw(st.gold_1g_toman),
                                margin_upper_pct, margin_lower_pct, "gold")
              ELSE h2
    IN  IF fx.ok /\ st.eurusd_rate > 0
        THEN HistoryAfter(h3, fx.rate, st.eurusd_rate,
                          margin_upper_pct, margin_lower_pct, "eurusd")
        ELSE h3

\* History variable kept in step with HistoryAfterCycle.
OriginAfterCycle(o, hBefore, hAfter) ==
    [i \in Instruments |->
        IF hAfter[i] = hBefore[i] THEN o[i]
        ELSE IF hAfter[i] = "none" THEN hBefore[i] ELSE "absent"]

AnyTriggerAlways(t) == TRUE

\* "if (trigger_usd or trigger_eur or trigger_gold or trigger_fx or trigger_tether)"
AnyTrigger(t) == t.usd \/ t.eur \/ t.gold \/ t.eurusd \/ t.tether

\* update_state arguments of the first-run path (jobs.py 341-349)
FirstRunState(snap, fx, tether, now) ==
    MarketState(IF snap.ok THEN snap.usd_toman ELSE 0,
                IF snap.ok THEN snap.eur_toman ELSE 0,
                IF snap.ok THEN snap.gold_1g_toman ELSE 0,
                IF fx.ok THEN fx.rate ELSE 0,
                IF tether.ok THEN tether.price ELSE 0,
                IF tether.ok THEN tether.ch ELSE 0,
                now)

\* update_state arguments of the threshold path (jobs.py 522-530); st is the
\* baseline the cycle read at its start.
MergedState(snap, fx, tether, st, now) ==
    MarketState(IF snap.ok THEN snap.usd_toman ELSE st.usd_toman,
                IF snap.ok THEN snap.eur_toman ELSE st.eur_toman,
                IF snap.ok THEN snap.gold_1g_toman ELSE st.gold_1g_toman,
                IF fx.ok THEN fx.rate ELSE st.eurusd_rate,
                IF tether.ok THEN tether.price ELSE st.tether_price_toman,
                IF tether.ok THEN tether.ch ELSE st.tether_24h_ch,
                now)

----------------------------------------------------------------------------
(* TTL cache of a source adapter                                           *)

\* Two of the adapter classes: an API provider and a crawler.  Each class
\* has its own class attributes _cache_data and _cache_ts (brsapi.py 39-41;
\* crawlers/base.py 49-51 and 182-183, "type(self)._cache_data = result").
AdapterClasses == {"BRSAPIProvider", "BonbastCrawler"}

\* _cache_data = None and _cache_ts = None; a payload is a number from 1
\* on, a time is a minute from 0 on
NoCache == [data |-> 0, ts |-> -1]

\* Payloads of an answer that the adapter takes: two that differ; for the
\* crawler the second is the result of a page in which _parse_html found no
\* price (CrawlerResult(None, None, None), bonbast_crawler.py 131-139),
\* which fetch stores like any other result.
EmptyResult == 3
Payloads(cls) == IF cls = "BonbastCrawler" THEN {1, EmptyResult} ELSE {1, 2}

\* What the network request of a refresh ends in (brsapi.py 88-113;
\* crawlers/base.py 92-105, 177-189)
Responses(cls) ==
    {[kind |-> "ok", data |-> d] : d \in Payloads(cls)}
        \cup {[kind |-> k, data |-> 0] :
                k \in IF cls = "BonbastCrawler"
                      THEN {"timeout", "request_error", "parse_error"}
                      ELSE {"timeout", "request_error", "invalid_json", "non_dict",
                            "missing_fields"}}

CacheValidInclusive(c, ttl, now) == c.data /= 0 /\ c.ts /= -1 /\ now - c.ts <= ttl

\* _cache_valid (brsapi.py 63-72; crawlers/base.py 71-80)
CacheValid(c, ttl, now) == c.data /= 0 /\ c.ts /= -1 /\ now - c.ts < ttl

\* every answer but a well-formed one ends in a raise before the cache is
\* stored (brsapi.py 93-113; crawlers/base.py 187-189)
RefreshFails(resp) == resp.kind /= "ok"

CacheAfterEvicting(c, resp, stored) ==
    IF RefreshFails(resp) THEN NoCache ELSE [data |-> resp.data, ts |-> stored]

\* The class attributes after a refresh that was answered by resp, the
\* answer being there at minute stored (brsapi.py 115-117; crawlers/base.py
\* 181-183)
CacheAfter(c, resp, stored) ==
    IF RefreshFails(resp) THEN c ELSE [data |-> resp.data, ts |-> stored]

FetchRaisesOnlyCold(c, ttl, now, resp) == c.data = 0 /\ RefreshFails(resp)

\* get_latest_raw / fetch ends in RuntimeError (brsapi.py 84-113;
\* crawlers/base.py 172-189)
FetchRaises(c, ttl, now, resp) == ~CacheValid(c, ttl, now) /\ RefreshFails(resp)

\* the value returned (0 when it raised)
FetchResult(c, ttl, now, resp) ==
    IF CacheValid(c, ttl, now) THEN c.data
    ELSE IF RefreshFails(resp) THEN 0
    ELSE resp.data

----------------------------------------------------------------------------
(* State file: LastSnapshot, save_last, load_last (file_store.py)          *)

\* A datetime: None, naive (no tzinfo) or aware.  wall is the reading of
\* the wall clock in minutes, offset the UTC offset in minutes; an aware
\* datetime is the instant wall - offset.
NoTs == [kind |-> "none", wall |-> 0, offset |-> 0]
NaiveTs(wall) == [kind |-> "naive", wall |-> wall, offset |-> 0]
AwareTs(wall, offset) == [kind |-> "aware", wall |-> wall, offset |-> offset]
UtcTs(minute) == AwareTs(minute, 0)

\* datetime.__eq__: two aware datetimes are equal when they are the same
\* instant, an aware and a naive one are never equal
TsEqual(a, b) ==
    IF a.kind = "aware" /\ b.kind = "aware"
    THEN a.wall - a.offset = b.wall - b.offset
    ELSE a.kind = b.kind /\ a.wall = b.wall

\* UTC offset of the zone the process runs in, minutes (Asia/Tehran);
\* astimezone() reads a naive datetime as local time (file_store.py 69)
LocalUtcOffset == 210

\* decimal places of the numbers in the model: eurusd_rate counts 0.00001,
\* tether_24h_ch counts 0.001, the Toman amounts are whole
RateScale == 100000
PctScale == 1000

\* LastSnapshot (file_store.py 30-38); no snapshot is Python's None
NoSnapshot == [exists |-> FALSE, usd_toman |-> 0, eur_toman |-> 0, gold_1g_toman |-> 0,
               eurusd_rate |-> 0, tether_price_toman |-> 0, tether_24h_ch |-> 0, ts |-> NoTs]

LastSnapshot(usd, eur, gold, fx, tp, tc, ts) ==
    [exists |-> TRUE, usd_toman |-> usd, eur_toman |-> eur, gold_1g_toman |-> gold,
     eurusd_rate |-> fx, tether_price_toman |-> tp, tether_24h_ch |-> tc, ts |-> ts]

\* A number as JSON text: sign, digits before and digits after the point
\* (json.dump writes an int as its digits and a float by float.__repr__).
JsonNumberUnsigned(n, scale) ==
    [neg |-> FALSE, whole |-> Abs(n) \div scale, frac |-> Abs(n) % scale]

JsonNumber(n, scale) ==
    [neg |-> n < 0, whole |-> Abs(n) \div scale, frac |-> Abs(n) % scale]

\* float(x) of a JSON number (file_store.py 76, 78)
ParseFloat(j, scale) == (IF j.neg THEN -1 ELSE 1) * (j.whole * scale + j.frac)

\* int(x) of a JSON number: the digits after the point are cut off
\* (file_store.py 73-75, 77)
ParseInt(j) == (IF j.neg THEN -1 ELSE 1) * j.whole

\* datetime.isoformat(): the wall clock reading and, for an aware datetime,
\* the offset as "+HH:MM" (file_store.py 49)
IsoFormat(t) == [wall |-> t.wall, zoned |-> t.kind = "aware", offset |-> t.offset]

\* datetime.fromisoformat(s).astimezone(timezone.utc) (file_store.py 68-69)
FromIsoFormat(str) ==
    IF str.zoned THEN UtcTs(str.wall - str.offset) ELSE UtcTs(str.wall - LocalUtcOffset)

RequiredKeys == {"usd_toman", "eur_toman", "gold_1g_toman", "eurusd_rate"}
InstrumentKeys == RequiredKeys \cup {"tether_price_toman", "tether_24h_ch"}
JsonKeys == InstrumentKeys \cup {"ts"}

\* A JSON object: the keys it has and their values (a key it lacks carries
\* a zero here).
JsonObject(has, usd, eur, gold, fx, tp, tc, ts) ==
    [has |-> has, usd_toman |-> usd, eur_toman |-> eur, gold_1g_toman |-> gold,
     eurusd_rate |-> fx, tether_price_toman |-> tp, tether_24h_ch |-> tc, ts |-> ts]

NoJson == JsonObject({}, JsonNumber(0, 1), JsonNumber(0, 1), JsonNumber(0, 1),
                     JsonNumber(0, 1), JsonNumber(0, 1), JsonNumber(0, 1), IsoFormat(NoTs))

\* LastSnapshot.to_json (file_store.py 40-52); now: the clock when ts is None
ToJson(snap, now) ==
    JsonObject(JsonKeys,
               JsonNumber(snap.usd_toman, 1), JsonNumber(snap.eur_toman, 1),
               JsonNumber(snap.gold_1g_toman, 1), JsonNumber(snap.eurusd_rate, RateScale),
               JsonNumber(snap.tether_price_toman, 1),
               JsonNumber(snap.tether_24h_ch, PctScale),
               IsoFormat(IF snap.ts.kind /= "none" THEN snap.ts ELSE UtcTs(now)))

\* LastSnapshot.from_json raises KeyError: data["usd_toman"] and the three
\* like it (file_store.py 73-76)
FromJsonRaises(data) == ~(RequiredKeys \subseteq data.has)

\* LastSnapshot.from_json (file_store.py 54-80) of an object that has the
\* required keys; now: the clock when "ts" is missing
FromJson(data, now) ==
    LastSnapshot(ParseInt(data.usd_toman), ParseInt(data.eur_toman),
                 ParseInt(data.gold_1g_toman), ParseFloat(data.eurusd_rate, RateScale),
                 IF "tether_price_toman" \in data.has
                 THEN ParseInt(data.tether_price_toman) ELSE 0,
                 IF "tether_24h_ch" \in data.has
                 THEN ParseFloat(data.tether_24h_ch, PctScale) ELSE 0,
                 IF "ts" \in data.has THEN FromIsoFormat(data.ts) ELSE UtcTs(now))

\* the dictionary load_last builds for a second from_json: data.get(key, 0)
\* for each instrument key (file_store.py 176-184)
WithDefaults(data) ==
    [k \in DOMAIN data |->
        IF k = "has" THEN data.has \cup InstrumentKeys
        ELSE IF k = "ts" \/ k \in data.has THEN data[k]
        ELSE JsonNumber(0, 1)]

\* What is at a path of the file system: nothing ("absent"), a JSON object
\* ("json"), text that json.load rejects with JSONDecodeError ("text": cut
\* off, empty, garbled), bytes that are no UTF-8 ("bytes"), or JSON that
\* from_json cannot use, a list, null or a value of the wrong type
\* ("unusable").
NoFile == [kind |-> "absent", data |-> NoJson]
JsonFile(data) == [kind |-> "json", data |-> data]
BrokenFile(kind) == [kind |-> kind, data |-> NoJson]

\* What json.load and the handlers around it do with the state file
\* (file_store.py 148-191): "none" (return None at 149), "backup" (155-167),
\* "parse" (169-187) or "give_up" (188-191).
LoadPath(f) ==
    CASE f.kind = "absent" -> "none"
      [] f.kind = "text" -> "backup"
      [] f.kind = "json" -> "parse"
      [] OTHER -> "give_up"

LoadLastNoRecovery(f, now) ==
    IF LoadPath(f) /= "parse" THEN NoSnapshot
    ELSE IF FromJsonRaises(f.data) THEN NoSnapshot
    ELSE FromJson(f.data, now)

\* load_last: the snapshot returned, NoSnapshot for None
LoadLast(f, now) ==
    IF LoadPath(f) /= "parse" THEN NoSnapshot
    ELSE IF FromJsonRaises(f.data) THEN FromJson(WithDefaults(f.data), now)
    ELSE FromJson(f.data, now)

\* How copying and removing a corrupt state file may end (file_store.py
\* 158-166)
BackupEnds == {"ok", "copy_fails", "unlink_fails"}

\* the state file after load_last
FileAfterLoad(f, io) == IF LoadPath(f) = "backup" /\ io = "ok" THEN NoFile ELSE f

\* the .json.corrupt file after load_last
BackupAfterLoad(f, b, io) ==
    IF LoadPath(f) = "backup" /\ io \in {"ok", "unlink_fails"} THEN f ELSE b

\* How save_last may end: it returns ("ok"), a step raises, or the process
\* dies after a step (file_store.py 104-129).
SaveRaises == {"raise_mkstemp", "raise_write", "raise_fsync", "raise_replace"}
SaveCrashes == {"crash_created", "crash_writing", "crash_written", "crash_replaced"}
SaveEnds == {"ok"} \cup SaveRaises \cup SaveCrashes

FileAfterSaveInPlace(f, content, end) ==
    CASE end \in {"ok", "crash_replaced", "crash_written", "raise_fsync",
                  "raise_replace"} -> JsonFile(content)
      [] end \in {"crash_writing", "raise_write"} -> BrokenFile("text")
      [] end = "crash_created" -> BrokenFile("text")
      [] OTHER -> f

\* The state file after save_last: only os.replace touches it
\* (file_store.py 122).
FileAfterSave(f, content, end) ==
    IF end \in {"ok", "crash_replaced"} THEN JsonFile(content) ELSE f

\* The temporary file after save_last: os.replace moves it away, the
\* handler unlinks it (file_store.py 123-128), a dying process leaves it.
TmpAfterSave(t, content, end) ==
    CASE end \in {"crash_created", "crash_writing"} -> BrokenFile("text")
      [] end = "crash_written" -> JsonFile(content)
      [] OTHER -> t

\* MarketState.from_last_snapshot (state_manager.py 62-81); the timestamp
\* of a MarketState of the model is the UTC minute
FromLastSnapshot(snap) ==
    IF ~snap.exists THEN NoState
    ELSE MarketState(snap.usd_toman, snap.eur_toman, snap.gold_1g_toman, snap.eurusd_rate,
                     snap.tether_price_toman, snap.tether_24h_ch,
                     snap.ts.wall - snap.ts.offset)

\* MarketState.to_last_snapshot (state_manager.py 45-60)
ToLastSnapshot(st) ==
    LastSnapshot(st.usd_toman, st.eur_toman, st.gold_1g_toman, st.eurusd_rate,
                 st.tether_price_toman, st.tether_24h_ch, UtcTs(st.ts))

LoadFromPersistenceCold(f, now) == NoState

\* StateManager._load_from_persistence (state_manager.py 94-109)
LoadFromPersistence(f, now) == FromLastSnapshot(LoadLast(f, now))

UpdateMemoryIfSaved(st, new, end) == IF end = "ok" THEN new ELSE st

\* StateManager._current_state after update_state returned: assigned in
\* the try and in the handler (state_manager.py 154-161)
UpdateMemory(st, new, end) == new

----------------------------------------------------------------------------
(* EUR/USD provider chain (rates_service.py)                               *)

\* What one provider's eur_usd_rate() does when called: raises, or returns
\* a rate (raw units).
ProviderRaises == [raised |-> TRUE, rate |-> 0]
ProviderReturns(rate) == [raised |-> FALSE, rate |-> rate]

FallbackCalledAlways(primary) == TRUE

\* ProviderChain.eur_usd_rate enters its except branch, where the fallback
\* is called, when the primary raised.
FallbackCalled(primary) == primary.raised

\* ProviderChain.eur_usd_rate raises RuntimeError when both raised.
ChainRaises(primary, fallback) ==
    primary.raised /\ FallbackCalled(primary) /\ fallback.raised

\* The rate ProviderChain.eur_usd_rate returns when it does not raise.
ChainRate(primary, fallback) ==
    IF FallbackCalled(primary) THEN fallback.rate ELSE primary.rate

\* ProviderChain.last_used_provider after the call; it is assigned only
\* on the two returning paths.
LastUsedProviderAfter(lp, primary, fallback) ==
    IF ~primary.raised THEN "brsapi"
    ELSE IF ~fallback.raised THEN "fastforex"
    ELSE lp

\* RatesService.eur_usd: the chain's rate, None when the chain raised.
EurUsd(primary, fallback) ==
    IF ChainRaises(primary, fallback)
    THEN [none |-> TRUE, rate |-> 0]
    ELSE [none |-> FALSE, rate |-> ChainRate(primary, fallback)]

----------------------------------------------------------------------------
(* Rate limiter (shared/rate_limiter.py).  time.time() is read from the    *)
(* clock, in minutes: a time_window of 60 seconds is 1, a block_duration   *)
(* of 300 seconds is 5.                                                    *)

RateLimitConfig(max_requests, time_window, block_duration) ==
    [max_requests |-> max_requests, time_window |-> time_window,
     block_duration |-> block_duration]

\* RATE_LIMITS; block_duration is the default of the dataclass
RATE_LIMITS ==
    [user_command  |-> RateLimitConfig(10, 1, 5),
     admin_command |-> RateLimitConfig(30, 1, 5),
     health_check  |-> RateLimitConfig(5, 1, 5)]

\* a configuration a caller of is_allowed may pass whose block is shorter
\* than its window
ShortBlockConfig == RateLimitConfig(1, 2, 1)

\* Identifiers given to is_allowed, each with the configuration its caller
\* passes: _check_rate_limit names the bucket after the limit type, so one
\* identifier is always used with one configuration.
Identifiers == {"health:chat:1", "short:1"}
ConfigOf(identifier) ==
    IF identifier = "health:chat:1" THEN RATE_LIMITS.health_check ELSE ShortBlockConfig

\* "identifier in self._blocked and now < self._blocked[identifier]"
StillBlocked(b, now) == b /= -1 /\ now < b

\* "while requests and requests[0] < cutoff: requests.popleft()"
RECURSIVE Cleaned(_, _)
Cleaned(q, cutoff) ==
    IF q /= <<>> /\ Head(q) < cutoff THEN Cleaned(Tail(q), cutoff) ELSE q

WindowFullLate(q, cfg, now) ==
    Len(Cleaned(q, now - cfg.time_window)) > cfg.max_requests

\* "len(requests) >= config.max_requests" after the cleaning
WindowFull(q, cfg, now) ==
    Len(Cleaned(q, now - cfg.time_window)) >= cfg.max_requests

\* return value of is_allowed
IsAllowed(q, b, cfg, now) == ~StillBlocked(b, now) /\ ~WindowFull(q, cfg, now)

\* self._requests[identifier] after the call
RequestsAfter(q, b, cfg, now) ==
    IF StillBlocked(b, now) THEN q
    ELSE IF WindowFull(q, cfg, now) THEN Cleaned(q, now - cfg.time_window)
    ELSE Append(Cleaned(q, now - cfg.time_window), now)

BlockedAfterExtending(q, b, cfg, now) ==
    IF StillBlocked(b, now) \/ WindowFull(q, cfg, now)
    THEN now + cfg.block_duration
    ELSE -1

\* self._blocked[identifier] after the call (-1: no entry)
BlockedAfter(q, b, cfg, now) ==
    IF StillBlocked(b, now) THEN b
    ELSE IF WindowFull(q, cfg, now) THEN now + cfg.block_duration
    ELSE -1

----------------------------------------------------------------------------
(* post_rate_job                                                           *)

\* invocations of post_rate_job that the job queue makes
MaxInvocations == 2

\* minutes between two readings of the clock, and the last minute modelled
TickMinutes == 15
MaxClock == 30

\* /post commands that the admin sends
MaxCommands == 1

Invocations == 1..MaxInvocations

\* outcomes of "await context.bot.send_message(...)"
SendOutcomes == {"ok", "RetryAfter", "TimedOut", "Error"}

LockedNever(l) == FALSE

\* _post_rate_job_lock.locked()
Locked(l) == l /= 0

SendFailsUnlessTimeout(outcome) == outcome \notin {"ok", "RetryAfter", "TimedOut"}

\* The first send raises out of the inner try: TimedOut is re-raised, any
\* other exception but RetryAfter is not caught there (jobs.py 283-298, 460-476).
SendFails(outcome) == outcome \notin {"ok", "RetryAfter"}

NoCycle == [pc |-> "none", id |-> 0, path |-> "none", before |-> NoState, after |-> NoState,
            now |-> 0, eurusd |-> NoRate, snap |-> NoSnap, tether |-> NoTether,
            asked |-> [eurusd |-> FALSE, snap |-> FALSE, tether |-> FALSE],
            gates |-> <<>>, called |-> {},
            trig |-> NoTriggers, expected |-> {}, attempts |-> 0, outcome |-> "none",
            delivered |-> FALSE, analysis |-> FALSE, errors |-> 0, committed |-> FALSE]

\* no direct call of _breach has been made
NoCall == [called |-> FALSE, curr |-> 0, prev |-> 0, up |-> 0, down |-> 0,
           instrument |-> "", before |-> "absent", after |-> "absent",
           originBefore |-> "absent", result |-> FALSE]

\* no /post command is being served
NoCmd == [pc |-> "idle", served |-> 0, eurusd |-> NoRate, snap |-> NoSnap,
          tether |-> NoTether, delivered |-> FALSE]

\* no direct call of get_irr_snapshot has been made
NoSnapshotCall == [called |-> FALSE, readings |-> <<>>, raised |-> FALSE, result |-> NoSnap]

\* no request of the class has been answered well
NoAnswer == [ever |-> FALSE, at |-> 0, data |-> 0, by |-> 0]

\* no direct call of an adapter's fetch has been made
NoFetchCall == [called |-> FALSE, cls |-> "", by |-> 0, ttl |-> 0, now |-> 0,
                before |-> NoCache, answered |-> NoAnswer,
                resp |-> [kind |-> "none", data |-> 0],
                requested |-> FALSE, raised |-> FALSE, result |-> 0, after |-> NoCache]

\* no call of save_last, load_last or update_state has been made
\* after: a save_last that returned came last, with this snapshot
\* durable: the last baseline that update_state gave to save_last and that
\* os.replace put in place, at the start the one an earlier run left
NoStoreCall == [op |-> "none", arg |-> NoSnapshot, end |-> "", io |-> "", now |-> 0,
                before |-> NoFile, memBefore |-> NoState, raised |-> FALSE,
                loaded |-> NoSnapshot, returned |-> NoState,
                after |-> [saved |-> FALSE, arg |-> NoSnapshot],
                durable |-> NoState]

\* no direct call of _breach_tether_24h_ch has been made
NoTetherCall == [called |-> FALSE, ch |-> 0, up |-> 0, down |-> 0, result |-> FALSE]

\* no call of RatesService.eur_usd has been made
NoChainCall == [called |-> FALSE, primary |-> ProviderRaises, fallback |-> ProviderRaises,
                chainCalls |-> 0, fallbackCalled |-> FALSE, chainRaised |-> FALSE,
                result |-> [none |-> TRUE, rate |-> 0],
                providerBefore |-> "none", providerAfter |-> "none"]

\* no call of is_allowed has been made
NoLimitCall == [called |-> FALSE, identifier |-> "", now |-> 0, result |-> FALSE,
                requestsBefore |-> <<>>, blockedBefore |-> -1]

\* no direct call of _should_fetch_provider has been made
\* trail: for each name, how many calls in a row, one minute apart and with
\* the same cache_minutes, have followed its first call (-1: none, or the
\* row was broken)
NoGateCall == [called |-> FALSE, name |-> "", ttl |-> 0, now |-> 0,
               before |-> [p \in Providers |-> [known |-> FALSE, at |-> 0]],
               result |-> FALSE,
               trail |-> [p \in Providers |-> [streak |-> -1, minute |-> 0, ttl |-> 0]]]

InitJob ==
    /\ clock = 0
    /\ provider_next_eligible = [p \in Providers |-> [known |-> FALSE, at |-> 0]]
    /\ lock = 0
    /\ inv = [n \in Invocations |-> "pending"]
    /\ cyc = NoCycle
    /\ current_state \in {NoState, StoredBaseline}
    /\ persisted = current_state
    /\ stats = [total_posts |-> 0, total_errors |-> 0]
    /\ cmd = NoCmd

Init ==
    /\ InitJob
    /\ breach_history = [i \in Instruments |-> "absent"]
    /\ reset_origin = [i \in Instruments |-> "absent"]
    /\ last = NoCall
    /\ last_gate = NoGateCall
    /\ last_snapshot = NoSnapshotCall
    /\ cache = [c \in AdapterClasses |-> NoCache]
    /\ net = [c \in AdapterClasses |-> NoAnswer]
    /\ last_fetch = NoFetchCall
    /\ file = IF current_state.exists
              THEN JsonFile(ToJson(ToLastSnapshot(current_state), clock)) ELSE NoFile
    /\ backup = NoFile
    /\ tmp = NoFile
    /\ proc = "up"
    /\ last_store = [NoStoreCall EXCEPT !.durable = persisted]
    /\ last_tether = NoTetherCall
    /\ last_used_provider = "none"
    /\ last_chain = NoChainCall
    /\ requests = [i \in Identifiers |-> <<>>]
    /\ blocked = [i \in Identifiers |-> -1]
    /\ granted = [i \in Identifiers |-> <<>>]
    /\ last_limit = NoLimitCall

\* the job queue triggers invocations one after another
IsNext(n) == inv[n] = "pending" /\ \A m \in Invocations : m < n => inv[m] /= "pending"

\* History: the instruments of the reading for which the breach engine,
\* asked with the baseline and the directions at the start of the cycle,
\* reports a breach.
ExpectedBreaches(snap, fx, tether, st, h) ==
    LET t == Triggers(snap, fx, tether, st, h)
    IN  {i \in {"usd", "eur", "gold", "eurusd", "tether"} : t[i]}

AllSourcesUnavailableNever(fx, snap) == FALSE

\* "if eurusd_rate is None and snap is None" (jobs.py 256)
AllSourcesUnavailable(fx, snap) == ~fx.ok /\ ~snap.ok

\* "if _post_rate_job_lock.locked(): ... return" (jobs.py 223-225)
Skip(n) ==
    /\ IsNext(n)
    /\ Locked(lock)
    /\ inv' = [inv EXCEPT ![n] = "skipped"]
    /\ UNCHANGED <<directVars, breach_history, reset_origin, callVars, clock, provider_next_eligible,
                   lock, cyc, current_state, persisted, stats, cmd>>

\* The invocation takes the lock and runs, without suspending, up to its
\* first await: gates, fetches, read of the baseline, threshold checks
\* (jobs.py 228-459).  fx, snap and tether are what the sources gave.
Start(n, fx, snap, tether) ==
    /\ IsNext(n)
    /\ ~Locked(lock)
    /\ LET g == CycleGates(provider_next_eligible, clock)
           st == current_state
           base == [NoCycle EXCEPT !.id = n, !.now = clock, !.before = st,
                                   !.eurusd = fx, !.snap = snap, !.tether = tether,
                                   !.asked = [eurusd |-> g.eurusd, snap |-> g.snap,
                                              tether |-> g.tether],
                                   !.gates = g.log,
                                   !.called = SourcesCalled(g, fx, snap),
                                   !.expected = IF st.exists
                                                THEN ExpectedBreaches(snap, fx, tether, st,
                                                                      breach_history)
                                                ELSE {}]
           trig == Triggers(snap, fx, tether, st, breach_history)
           hist == HistoryAfterCycle(snap, fx, st, breach_history)
       IN  /\ (~g.eurusd => fx = NoRate)
           /\ (~g.snap => snap = NoSnap)
           /\ (~g.tether => tether = NoTether)
           /\ provider_next_eligible' = g.ne
           /\ IF AllSourcesUnavailable(fx, snap)
              THEN \* "All data sources unavailable - skipping job run"
                   /\ cyc' = [base EXCEPT !.pc = "done", !.path = "nodata", !.after = st]
                   /\ inv' = [inv EXCEPT ![n] = "returned"]
                   /\ UNCHANGED <<lock, breach_history, reset_origin>>
              ELSE IF snap.ok
              THEN \* "if snap:" logs the rates; the rest of the function is
                   \* the body of its "else:" (jobs.py 264-268)
                   /\ cyc' = [base EXCEPT !.pc = "done", !.path = "snapshot", !.after = st]
                   /\ inv' = [inv EXCEPT ![n] = "returned"]
                   /\ UNCHANGED <<lock, breach_history, reset_origin>>
              ELSE IF ~st.exists
              THEN \* first run: post without percentages
                   /\ cyc' = [base EXCEPT !.pc = "send", !.path = "first"]
                   /\ inv' = [inv EXCEPT ![n] = "running"]
                   /\ lock' = n
                   /\ UNCHANGED <<breach_history, reset_origin>>
              ELSE /\ breach_history' = hist
                   /\ reset_origin' = OriginAfterCycle(reset_origin, breach_history, hist)
                   /\ IF AnyTrigger(trig)
                      THEN /\ cyc' = [base EXCEPT !.pc = "send", !.path = "threshold",
                                                  !.trig = trig]
                           /\ inv' = [inv EXCEPT ![n] = "running"]
                           /\ lock' = n
                      ELSE \* "No threshold breached - skipping post"
                           /\ cyc' = [base EXCEPT !.pc = "done", !.path = "quiet",
                                                  !.trig = trig, !.after = st]
                           /\ inv' = [inv EXCEPT ![n] = "returned"]
                           /\ UNCHANGED lock
    /\ UNCHANGED <<directVars, callVars, clock, current_state, persisted, stats, cmd>>

\* The outer "except Exception": the threshold path records a statistics
\* error (jobs.py 534-536), the first-run path only logs (jobs.py 351-353).
\* Leaving "async with" releases the lock.
SendFailed(outcome) ==
    /\ cyc' = [cyc EXCEPT !.pc = "done", !.attempts = @ + 1, !.outcome = outcome,
                          !.errors = IF cyc.path = "threshold" THEN @ + 1 ELSE @,
                          !.after = current_state]
    /\ stats' = IF cyc.path = "threshold"
                THEN [stats EXCEPT !.total_errors = @ + 1]
                ELSE stats
    /\ inv' = [inv EXCEPT ![cyc.id] = "returned"]
    /\ lock' = 0
    /\ UNCHANGED <<directVars, breach_history, reset_origin, callVars, clock, provider_next_eligible,
                   current_state, persisted, cmd>>

\* A send that did not raise: go on to the optional analysis message.
SendPassed(outcome) ==
    /\ cyc' = [cyc EXCEPT !.pc = "analysis", !.attempts = @ + 1, !.outcome = outcome,
                          !.delivered = (outcome = "ok")]
    /\ UNCHANGED <<directVars, breach_history, reset_origin, callVars, clock, provider_next_eligible,
                   lock, inv, current_state, persisted, stats, cmd>>

\* first "await context.bot.send_message(...)" of the price message
SendAttempt(outcome) ==
    /\ cyc.pc = "send"
    /\ IF outcome = "RetryAfter"
       THEN \* "await asyncio.sleep(float(e.retry_after) + 1)"
            /\ cyc' = [cyc EXCEPT !.pc = "retry", !.attempts = @ + 1, !.outcome = outcome]
            /\ UNCHANGED <<directVars, breach_history, reset_origin, callVars, clock, provider_next_eligible,
                           lock, inv, current_state, persisted, stats, cmd>>
       ELSE IF SendFails(outcome) THEN SendFailed(outcome) ELSE SendPassed(outcome)

RetryUntilDelivered(outcome) ==
    /\ cyc.pc = "retry"
    /\ IF outcome = "RetryAfter" /\ cyc.attempts < 3
       THEN /\ cyc' = [cyc EXCEPT !.attempts = @ + 1, !.outcome = outcome]
            /\ UNCHANGED <<directVars, breach_history, reset_origin, callVars, clock, provider_next_eligible,
                           lock, inv, current_state, persisted, stats, cmd>>
       ELSE IF outcome = "ok" THEN SendPassed(outcome) ELSE SendFailed(outcome)

\* the single retry inside "except RetryAfter": whatever it raises leaves
\* the inner try
RetryAttempt(outcome) ==
    /\ cyc.pc = "retry"
    /\ IF outcome = "ok" THEN SendPassed(outcome) ELSE SendFailed(outcome)

\* The analysis block never raises; then record_post, update_state and the
\* end of the function (jobs.py 300-353, 478-531).  sent: the analysis
\* message reached the channel; saved: save_last did not raise.
Finish(sent, saved) ==
    /\ cyc.pc = "analysis"
    /\ LET new == IF cyc.path = "first"
                  THEN FirstRunState(cyc.snap, cyc.eurusd, cyc.tether, cyc.now)
                  ELSE MergedState(cyc.snap, cyc.eurusd, cyc.tether, cyc.before, cyc.now)
       IN  /\ current_state' = new
           /\ persisted' = IF saved THEN new ELSE persisted
           /\ cyc' = [cyc EXCEPT !.pc = "done", !.analysis = sent, !.committed = TRUE,
                                 !.after = new]
    /\ stats' = [stats EXCEPT !.total_posts = @ + 1]
    /\ inv' = [inv EXCEPT ![cyc.id] = "returned"]
    /\ lock' = 0
    /\ UNCHANGED <<directVars, breach_history, reset_origin, callVars, clock, provider_next_eligible, cmd>>

\* Readings with at least a rate or a snapshot.  /post asks svc.eur_usd(),
\* get_irr_snapshot() and Wallex unconditionally (handlers.py 296-310); with
\* nothing but None it replies "unavailable" and returns, which changes no
\* state.
PostReadings ==
    {<<fx, snap, NoTether>> : fx \in {NoRate, [ok |-> TRUE, rate |-> 102000, provider |-> "brsapi"]},
                              snap \in {NoSnap, [ok |-> TRUE, usd_toman |-> 102, eur_toman |-> 100,
                                                 gold_1g_toman |-> 100,
                                                 provider |-> "crawler1_bonbast"]}}
        \ {<<NoRate, NoSnap, NoTether>>}

\* update_state arguments of /post (handlers.py 394-402): an instrument that
\* is not in the reading is written as 0.
PostCmdState(snap, fx, tether, now) ==
    MarketState(IF snap.ok THEN snap.usd_toman ELSE 0,
                IF snap.ok THEN snap.eur_toman ELSE 0,
                IF snap.ok THEN snap.gold_1g_toman ELSE 0,
                IF fx.ok THEN fx.rate ELSE 0,
                IF tether.ok THEN tether.price ELSE 0,
                IF tether.ok THEN tether.ch ELSE 0,
                now)

\* post_cmd by the admin up to its first await: the fetches and the message
\* text (handlers.py 270-369).  The handler takes no lock.
PostCmdStart(fx, snap, tether) ==
    /\ cmd.pc = "idle"
    /\ cmd.served < MaxCommands
    /\ cmd' = [pc |-> "send", served |-> cmd.served + 1, eurusd |-> fx, snap |-> snap,
               tether |-> tether, delivered |-> FALSE]
    /\ UNCHANGED <<directVars, breach_history, reset_origin, callVars, clock, provider_next_eligible,
                   lock, inv, cyc, current_state, persisted, stats>>

PostCmdSendUnchecked(outcome) ==
    /\ cmd.pc = "send"
    /\ cmd' = [cmd EXCEPT !.pc = "analysis", !.delivered = (outcome = "ok")]
    /\ UNCHANGED <<directVars, breach_history, reset_origin, callVars, clock, provider_next_eligible,
                   lock, inv, cyc, current_state, persisted, stats>>

\* "await context.bot.send_message(chat_id=CHANNEL_ID, text=text)"; a raise
\* goes to the handler's except, which records a statistics error
\* (handlers.py 368-370, 409-411).
PostCmdSend(outcome) ==
    /\ cmd.pc = "send"
    /\ IF outcome = "ok"
       THEN /\ cmd' = [cmd EXCEPT !.pc = "analysis", !.delivered = TRUE]
            /\ UNCHANGED stats
       ELSE /\ cmd' = [NoCmd EXCEPT !.served = cmd.served]
            /\ stats' = [stats EXCEPT !.total_errors = @ + 1]
    /\ UNCHANGED <<directVars, breach_history, reset_origin, callVars, clock, provider_next_eligible,
                   lock, inv, cyc, current_state, persisted>>

\* After the awaited analysis block: update_state, record_post and the
\* reply (handlers.py 372-408).  saved: save_last did not raise.
PostCmdFinish(saved) ==
    /\ cmd.pc = "analysis"
    /\ LET new == PostCmdState(cmd.snap, cmd.eurusd, cmd.tether, clock)
       IN  /\ current_state' = new
           /\ persisted' = IF saved THEN new ELSE persisted
    /\ stats' = [stats EXCEPT !.total_posts = @ + 1]
    /\ cmd' = [NoCmd EXCEPT !.served = cmd.served]
    /\ UNCHANGED <<directVars, breach_history, reset_origin, callVars, clock, provider_next_eligible,
                   lock, inv, cyc>>

\* time passes
Tick ==
    /\ clock + TickMinutes <= MaxClock
    /\ clock' = clock + TickMinutes
    /\ UNCHANGED <<directVars, breach_history, reset_origin, callVars, provider_next_eligible, lock, inv,
                   cyc, current_state, persisted, stats, cmd>>

Next ==
    \/ \E n \in Invocations : Skip(n)
    \/ \E n \in Invocations, fx \in Rates \cup {NoRate}, snap \in Snaps \cup {NoSnap},
          tether \in Tethers \cup {NoTether} : Start(n, fx, snap, tether)
    \/ \E outcome \in SendOutcomes : SendAttempt(outcome)
    \/ \E outcome \in SendOutcomes : RetryAttempt(outcome)
    \/ \E sent \in BOOLEAN, saved \in BOOLEAN : Finish(sent, saved)
    \/ Tick

\* the scheduled job on its own
Spec == Init /\ [][Next]_vars

\* The scheduled job and the admin's /post command in one event loop: each
\* runs until its next await, where the other may be resumed.
NextPost ==
    \/ \E n \in Invocations : Skip(n)
    \/ \E n \in Invocations, r \in PostReadings \cup {<<NoRate, NoSnap, NoTether>>} :
          Start(n, r[1], r[2], r[3])
    \/ \E outcome \in SendOutcomes : SendAttempt(outcome)
    \/ \E outcome \in SendOutcomes : RetryAttempt(outcome)
    \/ \E sent \in BOOLEAN, saved \in BOOLEAN : Finish(sent, saved)
    \/ \E r \in PostReadings : PostCmdStart(r[1], r[2], r[3])
    \/ \E outcome \in SendOutcomes : PostCmdSend(outcome)
    \/ \E saved \in BOOLEAN : PostCmdFinish(saved)
    \/ Tick

SpecPost == Init /\ [][NextPost]_vars

----------------------------------------------------------------------------
(* Direct calls of _breach, as a unit test makes them                      *)

\* Thresholds of the default configuration, 1.0 percent up and 2.0 percent
\* down (config/settings.py 77-78), as raw percentages (0.001 percent).
DefaultMargins == <<1000, 2000>>

\* raw percentages <<up_pct, down_pct>>: the default, a pair that only
\* rounding separates from it (1.005 -> 1.01, 1.996 -> 2.00), and zero
Margins == {DefaultMargins, <<1005, 1996>>, <<0, 0>>}

\* raw prices around a baseline of 1.0 with the default thresholds:
\* upper bound 1.01, hysteresis upper 1.01202, lower bound 0.98,
\* hysteresis lower 0.97804
Currs == {97800, 97804, 97806, 98000, 98004, 99400, 99900, 100000, 100001, 100100,
          100496, 100990, 100996, 101000, 101100, 101202, 101300}

\* baselines that are not positive
OddPrevs == {-100000, 0}

\* <<curr, prev, margins>> of the calls made
Calls == {<<c, 100000, m>> : c \in Currs, m \in Margins}
         \cup {<<c, p, DefaultMargins>> : c \in {-100000, 0, 101300}, p \in OddPrevs}

CallInstruments == {"", "usd", "eurusd"}

InitBreach ==
    /\ Init
    /\ current_state = NoState

CallBreach(curr, prev, up, down, instrument) ==
    /\ breach_history' = HistoryAfter(breach_history, curr, prev, up, down, instrument)
    /\ reset_origin' = OriginAfter(reset_origin, breach_history, curr, prev, up, down, instrument)
    /\ last' = [called |-> TRUE, curr |-> curr, prev |-> prev, up |-> up,
                down |-> down, instrument |-> instrument,
                before |-> RecordedDirection(breach_history, instrument),
                after |-> RecordedDirection(breach_history', instrument),
                originBefore |-> IF instrument = "" THEN "absent"
                                 ELSE reset_origin[instrument],
                result |-> BreachResult(curr, prev, up, down,
                               RecordedDirection(breach_history, instrument))]
    /\ UNCHANGED <<directVars, jobVars, last_gate, last_snapshot>>

\* 24h changes handed to _breach_tether_24h_ch (0.001 percent), around the
\* default thresholds
TetherChanges == {-2000, -1999, 0, 999, 1000}

\* One direct call of _breach_tether_24h_ch; it reads and writes no module
\* state.
CallBreachTether(ch, up, down) ==
    /\ last_tether' = [called |-> TRUE, ch |-> ch, up |-> up, down |-> down,
                       result |-> BreachTether24hCh(ch, up, down)]
    /\ UNCHANGED <<breachVars, callVars, jobVars, adapterVars, storeVars, chainVars,
                   limiterVars>>

NextBreach ==
    \E c \in Calls, instrument \in CallInstruments :
        CallBreach(c[1], c[2], c[3][1], c[3][2], instrument)

SpecBreach == InitBreach /\ [][NextBreach]_vars

\* Direct calls of _breach_tether_24h_ch between _breach calls that record
\* and clear directions (an Up breach, a Down breach, a reversal).
NextTether ==
    \/ \E ch \in TetherChanges, m \in {DefaultMargins, <<0, 0>>} :
          CallBreachTether(ch, m[1], m[2])
    \/ \E curr \in {98000, 99400, 101000}, instrument \in {"usd", "eurusd"} :
          CallBreach(curr, 100000, DefaultMargins[1], DefaultMargins[2], instrument)

SpecTether == InitBreach /\ [][NextTether]_vars

----------------------------------------------------------------------------
(* Direct calls of _should_fetch_provider, with a clock that is moved by   *)
(* hand                                                                    *)

\* last minute of the gate's clock
MaxMinute == 12

\* <<provider_name, cache_minutes>> of the calls made
GateCalls == {<<"fastforex", 10>>, <<"navasan", 3>>}

InitGate ==
    /\ Init
    /\ current_state = NoState

CallGate(name, ttl) ==
    /\ provider_next_eligible' = NextEligibleAfter(provider_next_eligible, name, ttl, clock)
    /\ last_gate' =
          [called |-> TRUE, name |-> name, ttl |-> ttl, now |-> clock,
           before |-> provider_next_eligible,
           result |-> ShouldFetch(provider_next_eligible, name, clock),
           trail |-> [last_gate.trail EXCEPT ![name] =
                        IF ~provider_next_eligible[name].known
                        THEN [streak |-> 0, minute |-> clock, ttl |-> ttl]
                        ELSE IF @.streak >= 0 /\ clock = @.minute + 1 /\ ttl = @.ttl
                        THEN [streak |-> @.streak + 1, minute |-> clock, ttl |-> ttl]
                        ELSE [streak |-> -1, minute |-> clock, ttl |-> ttl]]]
    /\ UNCHANGED <<directVars, breach_history, reset_origin, last, last_snapshot, clock, lock, inv, cyc,
                   current_state, persisted, stats, cmd>>

\* one minute passes
Minute ==
    /\ clock < MaxMinute
    /\ clock' = clock + 1
    /\ UNCHANGED <<directVars, breach_history, reset_origin, callVars, provider_next_eligible, lock, inv,
                   cyc, current_state, persisted, stats, cmd>>

NextGate ==
    \/ \E c \in GateCalls : CallGate(c[1], c[2])
    \/ Minute

SpecGate == InitGate /\ [][NextGate]_vars

----------------------------------------------------------------------------
(* Direct calls of get_irr_snapshot                                        *)

\* What source i of IrrChain may hand back: a raise, a full reading, one
\* with eur missing, one with usd = 0, one with gold = -1, three zeros.  The
\* numbers of different sources differ.
SourceReadings(i) ==
    {Reading(TRUE, {}, 0, 0, 0),
     Reading(FALSE, Fields, 100 + i, 200 + i, 300 + i),
     Reading(FALSE, Fields \ {"eur"}, 100 + i, 0, 300 + i),
     Reading(FALSE, Fields, 0, 200 + i, 300 + i),
     Reading(FALSE, Fields, 100 + i, 200 + i, -1),
     Reading(FALSE, Fields, 0, 0, 0)}

InitSnapshot ==
    /\ Init
    /\ current_state = NoState

CallSnapshot(bonbast, alanchand, brsapi, navasan) ==
    /\ last_snapshot' = [called |-> TRUE,
                         readings |-> <<bonbast, alanchand, brsapi, navasan>>,
                         raised |-> GetIrrSnapshotRaises(bonbast, alanchand, brsapi, navasan),
                         result |-> GetIrrSnapshot(bonbast, alanchand, brsapi, navasan)]
    /\ UNCHANGED <<directVars, breach_history, reset_origin, last, last_gate, jobVars>>

NextSnapshot ==
    \E b \in SourceReadings(1), a \in SourceReadings(2), r \in SourceReadings(3),
       n \in SourceReadings(4) : CallSnapshot(b, a, r, n)

SpecSnapshot == InitSnapshot /\ [][NextSnapshot]_vars

----------------------------------------------------------------------------
(* Direct calls of an adapter's fetch (BRSAPIProvider.get_latest_raw,      *)
(* BonbastCrawler.fetch), with a clock that is moved by hand               *)

\* last minute of the adapters' clock
MaxCacheMinute == 5

\* Instances of one class; each is constructed with the class's cache
\* minutes from the settings (brsapi.py 61; crawler_service.py 46-50).
AdapterInstances == {1, 2}

\* cache minutes of the classes in these calls (settings.py 67, 72 allow
\* 1..1440)
AdapterTtl(cls) == IF cls = "BonbastCrawler" THEN 3 ELSE 2

\* minutes a request may take to be answered
RequestMinutes == {0, 1}

InitCache ==
    /\ Init
    /\ current_state = NoState

\* One call of get_latest_raw / fetch by instance i of class cls.  When the
\* cache is not valid a request is made, answered by resp after dur minutes
\* (requests.get blocks the caller); _cache_ts is read from the clock when
\* the answer is stored.
CallFetch(cls, i, resp, dur) ==
    LET ttl == AdapterTtl(cls)
        c == cache[cls]
        requested == ~CacheValid(c, ttl, clock)
        stored == IF requested THEN clock + dur ELSE clock
    IN  /\ stored <= MaxCacheMinute
        /\ requested \/ (dur = 0 /\ resp = [kind |-> "ok", data |-> 1])
        /\ clock' = stored
        /\ cache' = [cache EXCEPT ![cls] = IF requested THEN CacheAfter(c, resp, stored) ELSE c]
        /\ net' = [net EXCEPT ![cls] =
                     IF requested /\ resp.kind = "ok"
                     THEN [ever |-> TRUE, at |-> stored, data |-> resp.data, by |-> i]
                     ELSE @]
        /\ last_fetch' = [called |-> TRUE, cls |-> cls, by |-> i, ttl |-> ttl, now |-> clock,
                          before |-> c, answered |-> net[cls],
                          resp |-> IF requested THEN resp ELSE [kind |-> "none", data |-> 0],
                          requested |-> requested,
                          raised |-> FetchRaises(c, ttl, clock, resp),
                          result |-> FetchResult(c, ttl, clock, resp),
                          after |-> cache'[cls]]
        /\ UNCHANGED <<breach_history, reset_origin, callVars, provider_next_eligible, lock,
                       inv, cyc, current_state, persisted, stats, cmd, storeVars, utilVars>>

\* one minute passes
CacheMinute ==
    /\ clock < MaxCacheMinute
    /\ clock' = clock + 1
    /\ UNCHANGED <<breach_history, reset_origin, callVars, provider_next_eligible, lock, inv,
                   cyc, current_state, persisted, stats, cmd, directVars>>

NextCache ==
    \/ \E cls \in AdapterClasses, i \in AdapterInstances, dur \in RequestMinutes :
          \E resp \in Responses(cls) : CallFetch(cls, i, resp, dur)
    \/ CacheMinute

SpecCache == InitCache /\ [][NextCache]_vars

----------------------------------------------------------------------------
(* Direct calls of save_last and load_last, with a state file that a test  *)
(* puts in place; calls of StateManager.update_state and restarts of the   *)
(* process                                                                 *)

\* last minute of the clock of these calls
MaxStoreMinute == 2

\* Snapshots handed to save_last: timestamps in UTC, with another offset,
\* naive and None; a rate with decimals, a negative Tether change.
SaveSnapshots ==
    {LastSnapshot(108400, 126000, 10812360, 108523, 50, -1500, ts) :
        ts \in {UtcTs(1), AwareTs(LocalUtcOffset + 1, LocalUtcOffset), NaiveTs(1), NoTs}}
        \cup {LastSnapshot(0, 0, 0, 0, 0, 0, UtcTs(2))}

\* State files found at the path: none; text cut off in the middle; bytes
\* that are no UTF-8; a JSON list; an object written before the Tether
\* fields existed; an object with usd_toman and ts only; an empty object.
StartFiles ==
    {NoFile, BrokenFile("text"), BrokenFile("bytes"), BrokenFile("unusable"),
     JsonFile(JsonObject(RequiredKeys \cup {"ts"},
                         JsonNumber(108400, 1), JsonNumber(126000, 1),
                         JsonNumber(10812360, 1), JsonNumber(108523, RateScale),
                         JsonNumber(0, 1), JsonNumber(0, 1), IsoFormat(UtcTs(0)))),
     JsonFile(JsonObject({"usd_toman", "ts"},
                         JsonNumber(108400, 1), JsonNumber(0, 1), JsonNumber(0, 1),
                         JsonNumber(0, 1), JsonNumber(0, 1), JsonNumber(0, 1),
                         IsoFormat(UtcTs(0)))),
     JsonFile(NoJson)}

\* usd_toman of the calls of update_state
UpdateValues == {100, 102}

\* the exceptions of save_last that update_state catches: "except
\* Exception" (state_manager.py 158)
CaughtByUpdateState == SaveRaises

InitFile ==
    /\ Init
    /\ current_state = NoState

\* a test puts a state file in place
PutFile(f) ==
    /\ file' = f
    /\ persisted' = LoadFromPersistence(f, clock)
    /\ last_store' = [NoStoreCall EXCEPT !.op = "put", !.before = file, !.now = clock,
                                         !.durable = last_store.durable]
    /\ UNCHANGED <<breach_history, reset_origin, callVars, clock, provider_next_eligible, lock,
                   inv, cyc, current_state, stats, cmd, adapterVars, utilVars, backup, tmp, proc>>

\* save_last(snap) (file_store.py 95-129)
CallSaveLast(snap, end) ==
    LET content == ToJson(snap, clock)
    IN  /\ file' = FileAfterSave(file, content, end)
        /\ tmp' = TmpAfterSave(tmp, content, end)
        /\ persisted' = LoadFromPersistence(file', clock)
        /\ last_store' = [NoStoreCall EXCEPT !.op = "save", !.arg = snap, !.end = end,
                             !.now = clock, !.before = file,
                             !.raised = end \in SaveRaises,
                             !.after = [saved |-> end = "ok", arg |-> snap],
                             !.durable = last_store.durable]
        /\ UNCHANGED <<breach_history, reset_origin, callVars, clock, provider_next_eligible,
                       lock, inv, cyc, current_state, stats, cmd, adapterVars, utilVars, backup, proc>>

\* load_last() (file_store.py 132-191); io: how the backup of a corrupt
\* file ends.  Nothing in the function raises past its handlers.
CallLoadLast(io) ==
    /\ io = "ok" \/ LoadPath(file) = "backup"
    /\ file' = FileAfterLoad(file, io)
    /\ backup' = BackupAfterLoad(file, backup, io)
    /\ persisted' = LoadFromPersistence(file', clock)
    /\ last_store' = [NoStoreCall EXCEPT !.op = "load", !.io = io, !.now = clock,
                         !.before = file, !.loaded = LoadLast(file, clock),
                         !.after = [saved |-> last_store.op = "save" /\ last_store.end = "ok",
                                    arg |-> IF last_store.op = "save" /\ last_store.end = "ok"
                                            THEN last_store.arg ELSE NoSnapshot],
                         !.durable = last_store.durable]
    /\ UNCHANGED <<breach_history, reset_origin, callVars, clock, provider_next_eligible, lock,
                   inv, cyc, current_state, stats, cmd, adapterVars, utilVars, tmp, proc>>

\* one minute passes
StoreMinute ==
    /\ clock < MaxStoreMinute
    /\ clock' = clock + 1
    /\ persisted' = LoadFromPersistence(file, clock')
    /\ UNCHANGED <<breach_history, reset_origin, callVars, provider_next_eligible, lock, inv,
                   cyc, current_state, stats, cmd, directVars>>

NextFile ==
    \/ \E f \in StartFiles : PutFile(f)
    \/ \E snap \in SaveSnapshots, end \in SaveEnds : CallSaveLast(snap, end)
    \/ \E io \in BackupEnds : CallLoadLast(io)
    \/ StoreMinute

SpecFile == InitFile /\ [][NextFile]_vars

\* state_manager.update_state(usd, ...) with ts the clock, as the job and
\* /post call it (state_manager.py 120-163); end: how its save_last ends.
\* When the process dies in save_last, the memory is gone.
CallUpdateState(usd, end) ==
    LET new == MarketState(usd, 126000, 10812360, 108523, 50, -1500, clock)
        content == ToJson(ToLastSnapshot(new), clock)
    IN  /\ proc = "up"
        /\ file' = FileAfterSave(file, content, end)
        /\ tmp' = TmpAfterSave(tmp, content, end)
        /\ persisted' = LoadFromPersistence(file', clock)
        /\ proc' = IF end \in SaveCrashes THEN "down" ELSE "up"
        /\ current_state' = IF end \in SaveCrashes THEN NoState
                            ELSE UpdateMemory(current_state, new, end)
        /\ last_store' = [NoStoreCall EXCEPT !.op = "update", !.arg = ToLastSnapshot(new),
                             !.end = end, !.now = clock, !.before = file,
                             !.memBefore = current_state,
                             !.raised = end \in (SaveRaises \ CaughtByUpdateState),
                             !.returned = IF end \in SaveCrashes THEN NoState ELSE new,
                             !.durable = IF end \in {"ok", "crash_replaced"} THEN new
                                          ELSE last_store.durable]
        /\ UNCHANGED <<breach_history, reset_origin, callVars, clock, provider_next_eligible,
                       lock, inv, cyc, stats, cmd, adapterVars, utilVars, backup>>

\* The process ends, if it has not, and is started again: StateManager()
\* loads the baseline (state_manager.py 87-109, 187).
Restart ==
    /\ proc' = "up"
    /\ current_state' = LoadFromPersistence(file, clock)
    /\ file' = FileAfterLoad(file, "ok")
    /\ backup' = BackupAfterLoad(file, backup, "ok")
    /\ persisted' = LoadFromPersistence(file', clock)
    /\ last_store' = [NoStoreCall EXCEPT !.op = "restart", !.io = "ok", !.now = clock,
                         !.before = file, !.memBefore = current_state,
                         !.loaded = LoadLast(file, clock),
                         !.returned = current_state',
                         !.durable = last_store.durable]
    /\ UNCHANGED <<breach_history, reset_origin, callVars, clock, provider_next_eligible, lock,
                   inv, cyc, stats, cmd, adapterVars, utilVars, tmp>>

NextStore ==
    \/ \E usd \in UpdateValues, end \in SaveEnds : CallUpdateState(usd, end)
    \/ Restart
    \/ proc = "up" /\ StoreMinute

SpecStore == Init /\ [][NextStore]_vars

----------------------------------------------------------------------------
(* Calls of RatesService.eur_usd on a ProviderChain                        *)

\* rates a provider may return (raw units)
ProviderRates == {0, 100000, 100996, 102000, 108000}

ProviderOutcomes == {ProviderRaises} \cup {ProviderReturns(r) : r \in ProviderRates}

\* One call of RatesService.eur_usd(), which calls the chain's eur_usd_rate
\* once; primary and fallback say what each provider does if it is called.
CallEurUsd(primary, fallback) ==
    /\ last_used_provider' = LastUsedProviderAfter(last_used_provider, primary, fallback)
    /\ last_chain' = [called |-> TRUE, primary |-> primary, fallback |-> fallback,
                      chainCalls |-> 1,
                      fallbackCalled |-> FallbackCalled(primary),
                      chainRaised |-> ChainRaises(primary, fallback),
                      result |-> EurUsd(primary, fallback),
                      providerBefore |-> last_used_provider,
                      providerAfter |-> last_used_provider']
    /\ UNCHANGED <<breachVars, callVars, jobVars, adapterVars, storeVars, last_tether,
                   limiterVars>>

NextChain ==
    \E primary \in ProviderOutcomes, fallback \in ProviderOutcomes :
        CallEurUsd(primary, fallback)

SpecChain == InitBreach /\ [][NextChain]_vars

----------------------------------------------------------------------------
(* Calls of the rate limiter's is_allowed, with a clock that is moved by   *)
(* hand                                                                    *)

\* the last minute at which a call is made
MaxLimiterMinute == 5

\* One call of rate_limiter.is_allowed(identifier, config) at the minute
\* the clock shows.
CallIsAllowed(identifier) ==
    LET cfg == ConfigOf(identifier)
        q == requests[identifier]
        b == blocked[identifier]
    IN  /\ requests' = [requests EXCEPT ![identifier] = RequestsAfter(q, b, cfg, clock)]
        /\ blocked' = [blocked EXCEPT ![identifier] = BlockedAfter(q, b, cfg, clock)]
        /\ granted' = [granted EXCEPT ![identifier] =
                          IF IsAllowed(q, b, cfg, clock) THEN Append(@, clock) ELSE @]
        /\ last_limit' = [called |-> TRUE, identifier |-> identifier, now |-> clock,
                          result |-> IsAllowed(q, b, cfg, clock),
                          requestsBefore |-> q, blockedBefore |-> b]
        /\ UNCHANGED <<breachVars, callVars, jobVars, adapterVars, storeVars, last_tether,
                       chainVars>>

\* One minute passes.  Of the calls that returned True, the history keeps
\* those of the last time_window minutes.
LimiterMinute ==
    /\ clock < MaxLimiterMinute
    /\ clock' = clock + 1
    /\ granted' = [i \in Identifiers |->
                      SelectSeq(granted[i],
                                LAMBDA t : t >= clock' - ConfigOf(i).time_window)]
    /\ UNCHANGED <<breachVars, callVars, provider_next_eligible, lock, inv, cyc,
                   current_state, persisted, stats, cmd, adapterVars, storeVars,
                   last_tether, chainVars, requests, blocked, last_limit>>

NextLimiter ==
    \/ \E identifier \in Identifiers : CallIsAllowed(identifier)
    \/ LimiterMinute

SpecLimiter == InitBreach /\ [][NextLimiter]_vars

----------------------------------------------------------------------------
(* Properties of _breach                                                   *)

\* The arithmetic of the statements below is written out on its own so that
\* it does not depend on the operators that model the code.

\* x rounded half-up from five to four decimals / from three to two
Rounded(x) == IF x >= 0 THEN (x + 5) \div 10 ELSE -((5 - x) \div 10)

\* "no recorded direction": the instrument is unknown to _breach_history or
\* its entry is None
Undirected(dir) == dir \in {"absent", "none"}

\* The recorded direction as the program reads it: a missing entry and a
\* None entry are the same to _breach.
Dir(dir) == IF dir = "absent" THEN "none" ELSE dir

\* curr >= prev * (1 + up/100) and curr <= prev * (1 - down/100) on the
\* arguments as passed (raw units)
RawAtOrAboveUpper(c, p, u) == (c - p) * 100000 >= p * u
RawAtOrBelowLower(c, p, d) == (p - c) * 100000 >= p * d

\* the same on the rounded arguments
AtOrAboveUpper(c, p, u) == (Rounded(c) - Rounded(p)) * 10000 >= Rounded(p) * Rounded(u)
AtOrBelowLower(c, p, d) == (Rounded(p) - Rounded(c)) * 10000 >= Rounded(p) * Rounded(d)

\* curr >= upper_bound * 1.002 and curr <= lower_bound * 0.998, raw
RawClearsUpperBand(c, p, u) ==
    (c - p) * 100000 - p * u >= 200 * p + ((p * u + 499) \div 500)
RawClearsLowerBand(c, p, d) ==
    (p - c) * 100000 - p * d >= 200 * p - ((p * d) \div 500)

\* the same on the rounded arguments
ClearsUpperBand(c, p, u) ==
    (Rounded(c) - Rounded(p)) * 10000 - Rounded(p) * Rounded(u)
        >= 20 * Rounded(p) + ((Rounded(p) * Rounded(u) + 499) \div 500)
ClearsLowerBand(c, p, d) ==
    (Rounded(p) - Rounded(c)) * 10000 - Rounded(p) * Rounded(d)
        >= 20 * Rounded(p) - ((Rounded(p) * Rounded(d)) \div 500)

\* |curr - prev| / prev * 100 >= 0.5, raw and rounded
RawFarFromBaseline(c, p) == 200 * Abs(c - p) >= p
FarFromBaseline(c, p) == 200 * Abs(Rounded(c) - Rounded(p)) >= Rounded(p)

\* C1 as stated: for previous > 0 and no recorded direction, _breach returns
\* true exactly when current >= previous*(1+upper_pct/100) or
\* current <= previous*(1-lower_pct/100), on the values as passed.
C1_BreachIffRawBound ==
    (last.called /\ last.prev > 0 /\ Undirected(last.before)) =>
        (last.result <=> (RawAtOrAboveUpper(last.curr, last.prev, last.up)
                          \/ RawAtOrBelowLower(last.curr, last.prev, last.down)))

\* C1 amended: for previous > 0 and no recorded direction, _breach returns
\* true exactly when c >= p*(1+u/100) or c <= p*(1-d/100), where c and p are
\* current and previous rounded half-up to four decimals and u and d are the
\* thresholds rounded half-up to two decimals; both bounds are inclusive.
C1_BreachIffRoundedBound ==
    (last.called /\ last.prev > 0 /\ Undirected(last.before)) =>
        (last.result <=> (AtOrAboveUpper(last.curr, last.prev, last.up)
                          \/ AtOrBelowLower(last.curr, last.prev, last.down)))

\* C1 witness: a call exactly at the upper bound (1.01 against 1.0, 1 percent)
\* with no recorded direction returned true.
C1_Witness ==
    /\ last.called /\ last.prev = 100000 /\ last.curr = 101000
    /\ last.up = 1000 /\ Undirected(last.before) /\ last.result

\* C2 as stated: with direction Up and current >= upper_bound the call returns
\* false and keeps Up if current < upper_bound*1.002 and returns true
\* otherwise; symmetrically for Down; on the values as passed.
C2_RetriggerRawBand ==
    (last.called /\ last.prev > 0) =>
        /\ (last.before = "up" /\ RawAtOrAboveUpper(last.curr, last.prev, last.up)) =>
              IF RawClearsUpperBand(last.curr, last.prev, last.up)
              THEN last.result
              ELSE ~last.result /\ last.after = "up"
        /\ (last.before = "down" /\ RawAtOrBelowLower(last.curr, last.prev, last.down)) =>
              IF RawClearsLowerBand(last.curr, last.prev, last.down)
              THEN last.result
              ELSE ~last.result /\ last.after = "down"

\* C2 amended: the same rule on current and previous rounded half-up to four
\* decimals and thresholds rounded half-up to two decimals: with direction Up
\* and c >= upper_bound the call returns false and keeps Up if
\* c < upper_bound*1.002 and returns true if c >= upper_bound*1.002; with
\* direction Down and c <= lower_bound it returns false and keeps Down if
\* c > lower_bound*0.998 and true if c <= lower_bound*0.998.
C2_RetriggerRoundedBand ==
    (last.called /\ last.prev > 0) =>
        /\ (last.before = "up" /\ AtOrAboveUpper(last.curr, last.prev, last.up)) =>
              IF ClearsUpperBand(last.curr, last.prev, last.up)
              THEN last.result
              ELSE ~last.result /\ last.after = "up"
        /\ (last.before = "down" /\ AtOrBelowLower(last.curr, last.prev, last.down)) =>
              IF ClearsLowerBand(last.curr, last.prev, last.down)
              THEN last.result
              ELSE ~last.result /\ last.after = "down"

\* C2 witness: with direction Up, 1.011 against 1.0 (inside the extra band of
\* the 1 percent threshold) was suppressed and the direction stayed Up.
C2_Witness ==
    /\ last.called /\ last.prev = 100000 /\ last.curr = 101100 /\ last.up = 1000
    /\ last.before = "up" /\ ~last.result /\ last.after = "up"

\* C3 as stated: a call that finds no breach in either direction sets the
\* direction to None if |current - previous| / previous * 100 >= 0.5 and
\* leaves it unchanged otherwise, on the values as passed; after such a reset
\* following an Up breach a call exactly at the upper bound returns true.
C3_ResetRawDistance ==
    (last.called /\ last.prev > 0 /\ last.instrument /= "") =>
        /\ (~RawAtOrAboveUpper(last.curr, last.prev, last.up)
            /\ ~RawAtOrBelowLower(last.curr, last.prev, last.down)) =>
              IF RawFarFromBaseline(last.curr, last.prev)
              THEN last.after = "none"
              ELSE Dir(last.after) = Dir(last.before)
        /\ (last.before = "none" /\ last.originBefore = "up"
            /\ (last.curr - last.prev) * 100000 = last.prev * last.up) => last.result

\* C3 amended: with c and p the current and previous values rounded half-up
\* to four decimals (thresholds to two), a call with neither c >= upper_bound
\* nor c <= lower_bound sets the direction to None if |c - p| / p * 100 >= 0.5
\* and leaves it unchanged if it is < 0.5; after such a reset following an Up
\* breach a call with c exactly at the upper bound returns true.
C3_ResetRoundedDistance ==
    (last.called /\ last.prev > 0 /\ last.instrument /= "") =>
        /\ (~AtOrAboveUpper(last.curr, last.prev, last.up)
            /\ ~AtOrBelowLower(last.curr, last.prev, last.down)) =>
              IF FarFromBaseline(last.curr, last.prev)
              THEN last.after = "none"
              ELSE Dir(last.after) = Dir(last.before)
        /\ (last.before = "none" /\ last.originBefore = "up"
            /\ (Rounded(last.curr) - Rounded(last.prev)) * 10000
                   = Rounded(last.prev) * Rounded(last.up)) => last.result

\* C3 witness: a direction that a reset had cleared from Up, then a call
\* exactly at the upper bound that returned true.
C3_Witness ==
    /\ last.called /\ last.prev = 100000 /\ last.curr = 101000 /\ last.up = 1000
    /\ last.before = "none" /\ last.originBefore = "up" /\ last.result

\* C4: _breach returns true whenever previous <= 0, for every current value,
\* every pair of thresholds and every instrument.
C4_NoBaselineAlwaysAnnounces ==
    (last.called /\ last.prev <= 0) => last.result

\* C4 witness: a call with previous = 0 and a recorded direction returned true.
C4_Witness ==
    /\ last.called /\ last.prev = 0 /\ last.instrument = "usd"
    /\ last.before = "up" /\ last.result

----------------------------------------------------------------------------
(* Properties of post_rate_job                                             *)

\* invocations suspended inside the body (between acquiring and releasing
\* the lock)
InBody == {n \in Invocations : inv[n] = "running"}

\* the cycle in cyc has returned
CycleDone == cyc.pc = "done"

\* the cycle tried to send its price message and the last attempt failed
SendUltimatelyFailed == CycleDone /\ cyc.attempts >= 1 /\ cyc.outcome /= "ok"

\* the baseline holds exactly the three values of the snapshot
HoldsSnapshot(st, snap) ==
    /\ st.exists
    /\ st.usd_toman = snap.usd_toman
    /\ st.eur_toman = snap.eur_toman
    /\ st.gold_1g_toman = snap.gold_1g_toman

\* C5: at most one invocation of post_rate_job is inside the body at any
\* time; an invocation triggered while the lock is held is skipped, and the
\* skip fetches nothing, consults no gate, sends nothing and leaves baseline,
\* state file, statistics and hysteresis alone; a skipped invocation stays
\* skipped (it never runs its body later).
C5_SingleFlight ==
    /\ [](Cardinality(InBody) <= 1)
    /\ [][\A n \in Invocations :
            /\ (inv[n] = "pending" /\ inv'[n] /= "pending" /\ lock /= 0) =>
                  /\ inv'[n] = "skipped"
                  /\ UNCHANGED <<provider_next_eligible, cyc, current_state, persisted,
                                 stats, breach_history, lock>>
            /\ (inv[n] = "skipped" => inv'[n] = "skipped")]_vars

\* C5 witness: one invocation is suspended in the body and a later one has
\* been skipped.
C5_Witness ==
    \E n, m \in Invocations : inv[n] = "running" /\ inv[m] = "skipped" /\ lock = n

\* C6: a cycle that found no baseline and obtained a complete IRR snapshot
\* attempts the initial notification and, when it is delivered, has set the
\* baseline to exactly the snapshot's values.
C6_ColdStartSnapshotAnnounced ==
    (CycleDone /\ ~cyc.before.exists /\ cyc.snap.ok) =>
        /\ cyc.attempts >= 1
        /\ (cyc.delivered => HoldsSnapshot(cyc.after, cyc.snap))

\* C7: a cycle that found a baseline and obtained an IRR snapshot whose USD
\* value breaches its threshold against that baseline attempts a
\* notification and, when it is delivered, has committed the reading.
C7_SnapshotBreachAnnounced ==
    (CycleDone /\ cyc.before.exists /\ cyc.snap.ok /\ "usd" \in cyc.expected) =>
        /\ cyc.attempts >= 1
        /\ (cyc.delivered => HoldsSnapshot(cyc.after, cyc.snap))

\* C8: a cycle that found a baseline and whose reading has no breaching
\* instrument sends nothing and leaves the baseline, values and timestamp,
\* as it was: the step that runs such a cycle changes neither the baseline
\* nor the state file.
C8_NoBreachNoAction ==
    /\ []((CycleDone /\ cyc.before.exists /\ cyc.expected = {}) =>
            /\ cyc.attempts = 0
            /\ ~cyc.delivered /\ ~cyc.analysis
            /\ ~cyc.committed)
    /\ [][(cyc'.id /= cyc.id /\ cyc'.pc = "done" /\ cyc'.before.exists
            /\ cyc'.expected = {}) =>
              /\ cyc'.before = current_state
              /\ UNCHANGED <<current_state, persisted>>]_vars

\* C8 witness: a cycle read an EUR/USD rate inside the thresholds against an
\* existing baseline and returned without sending.
C8_Witness ==
    /\ CycleDone /\ cyc.before.exists /\ cyc.eurusd.ok /\ cyc.expected = {}
    /\ cyc.path = "quiet" /\ cyc.attempts = 0

\* C9: when the notification send of a cycle ultimately fails (an error, a
\* timeout, or a failed retry after a rate-limit answer), the baseline is
\* as it was before the cycle, in the first-run path and in the threshold
\* path.
C9_FailedSendKeepsBaseline ==
    /\ [](SendUltimatelyFailed => ~cyc.committed)
    /\ [][(cyc.pc \in {"send", "retry"} /\ cyc'.pc = "done") =>
              UNCHANGED <<current_state, persisted>>]_vars

\* C9 witness: a threshold post whose retry after a rate-limit answer failed.
C9_Witness ==
    /\ SendUltimatelyFailed /\ cyc.path = "threshold" /\ cyc.attempts = 2
    /\ cyc.before.exists

\* C10: whenever the notification send of a cycle ultimately fails, exactly
\* one statistics error is recorded for that cycle, in the first-run path
\* and in the threshold path.
C10_FailedSendRecordsOneError ==
    SendUltimatelyFailed => cyc.errors = 1

\* C11: the price message of a cycle is attempted at most twice; a second
\* attempt happens only as the retry that follows a rate-limit answer to the
\* first, and after that answer the cycle waits to retry (it has neither
\* given up nor committed); a retry that fails ends the cycle without a
\* commit.
C11_RetryOnce ==
    /\ [](cyc.attempts <= 2)
    /\ []((cyc.attempts = 1 /\ cyc.outcome = "RetryAfter") =>
            (cyc.pc = "retry" /\ ~cyc.committed))
    /\ [][(cyc'.attempts = 2 /\ cyc.attempts = 1) =>
              (cyc.pc = "retry" /\ cyc.outcome = "RetryAfter")]_vars
    /\ []((CycleDone /\ cyc.attempts = 2 /\ cyc.outcome /= "ok") =>
            (~cyc.committed /\ ~cyc.delivered /\ lock /= cyc.id))

\* C11 witness: a rate-limit answer, then a retry that was delivered and
\* committed.
C11_Witness ==
    /\ CycleDone /\ cyc.attempts = 2 /\ cyc.outcome = "ok" /\ cyc.delivered
    /\ cyc.committed

\* C12: a cycle that obtained neither an EUR/USD rate nor an IRR snapshot
\* returns normally from the step that fetched, without a send, a recorded
\* error or a commit, and that step leaves baseline, state file and
\* statistics as they were.
C12_NoDataNoAction ==
    /\ []((CycleDone /\ ~cyc.eurusd.ok /\ ~cyc.snap.ok) =>
            /\ cyc.attempts = 0 /\ ~cyc.delivered /\ ~cyc.analysis
            /\ cyc.errors = 0 /\ ~cyc.committed
            /\ inv[cyc.id] = "returned")
    /\ [][(cyc'.id /= cyc.id /\ ~cyc'.eurusd.ok /\ ~cyc'.snap.ok) =>
              /\ cyc'.pc = "done"
              /\ UNCHANGED <<current_state, persisted, stats, lock>>]_vars

\* C12 witness: both fetches were made and gave nothing while Wallex gave
\* Tether data, with a baseline present; the cycle returned.
C12_Witness ==
    /\ CycleDone /\ cyc.path = "nodata" /\ cyc.asked.eurusd /\ cyc.asked.snap
    /\ cyc.tether.ok /\ cyc.before.exists

----------------------------------------------------------------------------
(* Properties of the baseline with /post in the loop                       *)

\* the step is the commit of a scheduled cycle on the threshold path
ThresholdCommit ==
    cyc.pc = "analysis" /\ cyc.path = "threshold" /\ cyc'.committed

\* C13: when a scheduled cycle commits after a breach, every instrument that
\* is absent from its reading has, after the commit, the value the baseline
\* held just before the commit.
C13_AbsentInstrumentsKept ==
    [][ThresholdCommit =>
          /\ (~cyc.snap.ok =>
                /\ current_state'.usd_toman = current_state.usd_toman
                /\ current_state'.eur_toman = current_state.eur_toman
                /\ current_state'.gold_1g_toman = current_state.gold_1g_toman)
          /\ (~cyc.eurusd.ok =>
                current_state'.eurusd_rate = current_state.eurusd_rate)
          /\ (~cyc.tether.ok =>
                /\ current_state'.tether_price_toman = current_state.tether_price_toman
                /\ current_state'.tether_24h_ch = current_state.tether_24h_ch)]_vars

\* the step is the commit of a scheduled cycle whose price message was
\* delivered
DeliveredCycleCommit == cyc.pc = "analysis" /\ cyc.delivered /\ cyc'.committed

\* the step is the update_state of a /post command whose channel message
\* was delivered
DeliveredPostCommit == cmd.pc = "analysis" /\ cmd.delivered /\ cmd'.pc = "idle"

\* C14 as stated: every step that changes the baseline is the commit of a
\* scheduled cycle whose price message was delivered.
C14_OnlyDeliveredCycleWrites ==
    [][current_state' /= current_state => DeliveredCycleCommit]_vars

\* C14 amended: every step that changes the baseline is the commit of a
\* scheduled cycle whose price message was delivered or the commit of an
\* admin /post command whose channel message was delivered; a failed send
\* of either leaves the baseline as it was.
C14_OnlyDeliveredPostsWrite ==
    [][current_state' /= current_state =>
          (DeliveredCycleCommit \/ DeliveredPostCommit)]_vars

\* C14 witness: no scheduled cycle has run, one /post was handled without
\* an error, and the baseline holds the snapshot that /post fetched.
C14_Witness ==
    /\ cyc = NoCycle /\ cmd.pc = "idle" /\ cmd.served = 1
    /\ stats.total_posts = 1 /\ stats.total_errors = 0
    /\ current_state.exists /\ current_state.usd_toman = 102

\* C15: while a scheduled cycle is between its read of the baseline and its
\* commit, the baseline is still the one it read.
C15_NoWriteBetweenReadAndCommit ==
    cyc.pc \in {"send", "retry", "analysis"} => current_state = cyc.before

----------------------------------------------------------------------------
(* Properties of the eligibility gate                                      *)

\* C16: of the calls _should_fetch_provider(name, 10) made for a fresh
\* name at minute 0 and then once every minute, the first returns true, the
\* 9 that follow return false and the call at minute 10 returns true.
C16_GateCadence ==
    LET t == last_gate.trail[last_gate.name]
    IN  (last_gate.called /\ last_gate.ttl = 10 /\ t.streak \in 0..10) =>
            (last_gate.result <=> t.streak \in {0, 10})

GatePassed(s) ==
    \E i \in 1..Len(cyc.gates) : cyc.gates[i].name = s /\ cyc.gates[i].result

\* C18: every source that a cycle asked for data is one whose eligibility
\* gate returned true in that cycle.
C18_OnlyEligibleSourcesAsked ==
    CycleDone => \A s \in cyc.called : GatePassed(s)

----------------------------------------------------------------------------
(* Properties of get_irr_snapshot                                          *)

\* the source did not raise and gave all three fields
GaveAllThree(r) == ~r.raised /\ r.has = Fields

\* a complete reading: all three fields given and positive
CompleteReading(r) == GaveAllThree(r) /\ r.usd > 0 /\ r.eur > 0 /\ r.gold > 0

\* C19: a returned snapshot carries the tag of one source of the chain
\* Bonbast, AlanChand, BRS, Navasan; that source did not raise and gave all
\* three fields, the snapshot's three values are that source's values, and
\* no source before it in the chain gave a complete reading; when nothing
\* is returned, no source gave a complete reading.
C19_FirstCompleteSourceWins ==
    last_snapshot.called =>
        LET rs == last_snapshot.readings
            res == last_snapshot.result
        IN  /\ res.ok =>
                  \E i \in 1..Len(IrrChain) :
                      /\ res.provider = IrrChain[i]
                      /\ GaveAllThree(rs[i])
                      /\ res.usd_toman = rs[i].usd
                      /\ res.eur_toman = rs[i].eur
                      /\ res.gold_1g_toman = rs[i].gold
                      /\ \A j \in 1..(i - 1) : ~CompleteReading(rs[j])
            /\ ~res.ok => \A i \in 1..Len(IrrChain) : ~CompleteReading(rs[i])

\* C19 witness: Bonbast raised, AlanChand gave a reading without eur, BRS
\* gave a complete reading, and the snapshot is the one of BRS.
C19_Witness ==
    /\ last_snapshot.called
    /\ last_snapshot.readings[1].raised
    /\ ~last_snapshot.readings[2].raised /\ "eur" \notin last_snapshot.readings[2].has
    /\ CompleteReading(last_snapshot.readings[3])
    /\ CompleteReading(last_snapshot.readings[4])
    /\ last_snapshot.result.ok /\ last_snapshot.result.provider = "brsapi"
    /\ last_snapshot.result.usd_toman = last_snapshot.readings[3].usd

\* C20: every snapshot get_irr_snapshot returns has usd_toman, eur_toman
\* and gold_1g_toman strictly positive.
C20_SnapshotPositive ==
    (last_snapshot.called /\ last_snapshot.result.ok) =>
        /\ last_snapshot.result.usd_toman > 0
        /\ last_snapshot.result.eur_toman > 0
        /\ last_snapshot.result.gold_1g_toman > 0

\* The chain got as far as Navasan: neither crawler and not BRS gave a
\* snapshot.
NavasanReached(rs) == ~GetCrawlerSnapshot(rs[1], rs[2]).ok /\ ~AcceptsTruthy(rs[3])

\* C21: get_irr_snapshot never raises.  It returns None when every source
\* failed (raised, in its constructor or later), and it returns None when
\* the chain got as far as Navasan and Navasan reported NOT_FOUND for one of
\* usd, eur, 18ayar.
C21_SnapshotNeverRaises ==
    last_snapshot.called =>
        LET rs == last_snapshot.readings
        IN  /\ ~last_snapshot.raised
            /\ (\A i \in 1..4 : rs[i].raised) => last_snapshot.result = NoSnap
            /\ (NavasanReached(rs) /\ ~rs[4].raised /\ rs[4].has /= Fields)
                   => last_snapshot.result = NoSnap

\* Bonbast, AlanChand and BRS raised, and Navasan answered with usd and
\* 18ayar but eur NOT_FOUND: None is returned.
C21_Witness ==
    /\ last_snapshot.called
    /\ \A i \in 1..3 : last_snapshot.readings[i].raised
    /\ ~last_snapshot.readings[4].raised
    /\ last_snapshot.readings[4].has = Fields \ {"eur"}
    /\ last_snapshot.readings[4].usd /= 0
    /\ last_snapshot.result = NoSnap
    /\ ~last_snapshot.raised

----------------------------------------------------------------------------
(* Properties of an adapter's TTL cache                                    *)

\* the most recent call of fetch was made less than TTL after the class's
\* last well-answered request
WithinTtl(f) == f.answered.ever /\ f.now - f.answered.at < f.ttl

\* the most recent call of fetch made a request and the request failed
RefreshFailed(f) == f.called /\ f.requested /\ f.resp.kind /= "ok"

\* C22: after a request of an adapter class was answered well at minute t,
\* a fetch by any instance of the class before t + TTL returns the data of
\* that answer and makes no request; from t + TTL on the cache is not valid
\* (a fetch makes a request); a class that has no data cached is never valid.
C22_TtlCache ==
    /\ last_fetch.called =>
          /\ WithinTtl(last_fetch) =>
                /\ ~last_fetch.requested
                /\ ~last_fetch.raised
                /\ last_fetch.result = last_fetch.answered.data
          /\ ~WithinTtl(last_fetch) => last_fetch.requested
    /\ \A cls \in AdapterClasses :
          CacheValid(cache[cls], AdapterTtl(cls), clock)
             <=> (net[cls].ever /\ clock - net[cls].at < AdapterTtl(cls))

\* Instance 2 is served, in the last minute before t + TTL, the data that a
\* request of instance 1 brought.
C22_Witness ==
    /\ last_fetch.called
    /\ last_fetch.answered.ever
    /\ last_fetch.answered.by = 1
    /\ last_fetch.by = 2
    /\ last_fetch.now = last_fetch.answered.at + last_fetch.ttl - 1
    /\ ~last_fetch.requested
    /\ last_fetch.result = last_fetch.answered.data

C24_StaleServedOnFailure ==
    /\ last_fetch.called /\ last_fetch.raised => ~last_fetch.answered.ever
    /\ (RefreshFailed(last_fetch) /\ last_fetch.answered.ever) =>
          last_fetch.result = last_fetch.answered.data

\* C24, amended: fetch raises exactly when its cache is not valid (nothing
\* cached, or TTL or more since the last well-answered request) and the
\* request it then makes fails; a value cached earlier is returned only
\* within the TTL.
C24_RaisesIffNoValidCacheAndRefreshFails ==
    last_fetch.called =>
        /\ last_fetch.raised <=> (~WithinTtl(last_fetch) /\ RefreshFailed(last_fetch))
        /\ (last_fetch.answered.ever /\ last_fetch.result = last_fetch.answered.data
               /\ ~last_fetch.requested) => WithinTtl(last_fetch)

\* A request of the class had been answered well, the TTL has passed, the
\* next request times out, and fetch raises.
C24_Witness ==
    /\ last_fetch.called
    /\ last_fetch.answered.ever
    /\ ~WithinTtl(last_fetch)
    /\ last_fetch.resp.kind = "timeout"
    /\ last_fetch.raised

----------------------------------------------------------------------------
(* Properties of the state baseline and its file                           *)

\* update_state was the last call and came back to its caller
UpdateReturned == last_store.op = "update" /\ last_store.end \notin SaveCrashes

\* C25: update_state replaces the baseline in memory with the new values
\* and returns them, also when save_last raises; the failure of the write
\* does not reach the caller, and the baseline in memory does not stay at
\* the older value.
C25_UpdateAlwaysInMemory ==
    UpdateReturned =>
        /\ ~last_store.raised
        /\ last_store.returned = FromLastSnapshot(last_store.arg)
        /\ current_state = last_store.returned

\* json.dump raised in save_last: the state file is as before, and the
\* baseline in memory went from an older one to the new values.
C25_Witness ==
    /\ UpdateReturned
    /\ last_store.end = "raise_write"
    /\ last_store.memBefore.exists
    /\ last_store.memBefore.usd_toman /= current_state.usd_toman
    /\ current_state = FromLastSnapshot(last_store.arg)
    /\ file = last_store.before
    /\ persisted /= current_state

\* the content is no valid JSON: text that does not parse, or bytes that
\* are not even text
NotValidJson(f) == f.kind \in {"text", "bytes"}

\* C26: loading never raises; with no state file it gives no baseline; a
\* state file that is no valid JSON is copied to <state file>.corrupt and
\* removed (the file system letting it), no baseline is given, and a later
\* load gives none either.
C26_CorruptFileQuarantined ==
    (last_store.op = "load" /\ last_store.io = "ok") =>
        /\ ~last_store.raised
        /\ last_store.before.kind = "absent" => ~last_store.loaded.exists
        /\ NotValidJson(last_store.before) =>
              /\ ~last_store.loaded.exists
              /\ backup = last_store.before
              /\ file = NoFile
              /\ ~LoadLast(file, clock).exists

\* the number a JSON number denotes, in the units of the model
JsonValue(j, k) ==
    (IF j.neg THEN -1 ELSE 1)
        * (j.whole * (IF k = "eurusd_rate" THEN RateScale
                      ELSE IF k = "tether_24h_ch" THEN PctScale ELSE 1)
           + j.frac)

\* C27: when the state file is a JSON object that lacks some of the
\* instrument fields, load_last returns a snapshot in which each missing
\* field is 0 and each present field has the stored value; it does not
\* return None.
C27_MissingFieldsDefault ==
    (/\ last_store.op = "load"
     /\ last_store.before.kind = "json"
     /\ ~(InstrumentKeys \subseteq last_store.before.data.has)) =>
        /\ last_store.loaded.exists
        /\ \A k \in InstrumentKeys :
              last_store.loaded[k] =
                 IF k \in last_store.before.data.has
                 THEN JsonValue(last_store.before.data[k], k) ELSE 0

\* The state file held usd_toman and ts only: the snapshot loaded has
\* usd_toman 108400, zeros elsewhere and the stored timestamp.
C27_Witness ==
    /\ last_store.op = "load"
    /\ last_store.before.kind = "json"
    /\ last_store.before.data.has = {"usd_toman", "ts"}
    /\ last_store.loaded.exists
    /\ last_store.loaded.usd_toman = 108400
    /\ last_store.loaded.eur_toman = 0
    /\ last_store.loaded.eurusd_rate = 0
    /\ last_store.loaded.ts = UtcTs(0)

\* load_last was called right after a save_last that returned
LoadedAfterSave == last_store.op = "load" /\ last_store.after.saved

\* C28: for a snapshot whose timestamp is in UTC, save_last(snapshot) and
\* then load_last() give a snapshot equal to the saved one in usd_toman,
\* eur_toman, gold_1g_toman, eurusd_rate, tether_price_toman, tether_24h_ch
\* and ts.
C28_RoundTrip ==
    (/\ LoadedAfterSave
     /\ last_store.after.arg.ts.kind = "aware"
     /\ last_store.after.arg.ts.offset = 0) =>
        /\ last_store.loaded.exists
        /\ \A k \in InstrumentKeys : last_store.loaded[k] = last_store.after.arg[k]
        /\ TsEqual(last_store.loaded.ts, last_store.after.arg.ts)

\* A snapshot with rate 1.08523, Tether change -1.5 and a UTC timestamp
\* came back as it was saved.
C28_Witness ==
    /\ LoadedAfterSave
    /\ last_store.after.arg = LastSnapshot(108400, 126000, 10812360, 108523, 50, -1500, UtcTs(1))
    /\ last_store.loaded = last_store.after.arg

\* C29: however save_last ends (it returns, a step raises, the process
\* dies after a step), the state file then holds what it held before the
\* call or the whole of the new state, never a part of it; when a step
\* raised it holds what it held before.
C29_AtomicSave ==
    last_store.op = "save" =>
        /\ \/ file = last_store.before
           \/ file = JsonFile(ToJson(last_store.arg, last_store.now))
        /\ last_store.raised => file = last_store.before

\* The process died while json.dump was writing: the temporary file holds
\* a part of the text, the state file its complete previous content.
C29_Witness ==
    /\ last_store.op = "save"
    /\ last_store.end = "crash_writing"
    /\ last_store.before.kind = "json"
    /\ last_store.before.data.has = JsonKeys
    /\ file = last_store.before
    /\ tmp.kind = "text"

\* C30: after a restart the baseline of StateManager is the last baseline
\* whose write succeeded before the restart (none when there was none);
\* and after an update whose write did not fail, what the state file holds
\* is the baseline in memory.
C30_RestartResumesLastWritten ==
    /\ last_store.op = "restart" => current_state = last_store.durable
    /\ (UpdateReturned /\ last_store.end = "ok") =>
          /\ persisted = current_state
          /\ FromLastSnapshot(LoadLast(file, clock)) = current_state

\* An update was written, a later one was not (save_last raised, or the
\* process died in it), and the process was started again: the baseline is
\* the one that was written, not the newer one the memory held.
C30_Witness ==
    /\ last_store.op = "restart"
    /\ last_store.durable.exists
    /\ last_store.durable.ts > 0
    /\ current_state = last_store.durable
    /\ last_store.memBefore.exists
    /\ last_store.memBefore /= current_state

----------------------------------------------------------------------------
(* Further properties of the breach rules                                  *)

\* C31: _breach_tether_24h_ch(change, upper, lower) returns true exactly when
\* change >= upper or change <= -lower, whatever calls came before and
\* whatever direction _breach_history records.
C31_TetherRuleStateless ==
    last_tether.called =>
        (last_tether.result <=> (\/ last_tether.ch >= last_tether.up
                                 \/ last_tether.ch <= -last_tether.down))

\* C31 witness: with a direction recorded for usd, a change of exactly -2.0
\* percent against a lower threshold of 2.0 percent was a breach.
C31_Witness ==
    /\ last_tether.called /\ last_tether.ch = -2000 /\ last_tether.down = 2000
    /\ last_tether.result /\ breach_history["usd"] = "up"

\* C32: a _breach call for an instrument changes the recorded direction of
\* no other instrument.
C32_HistoryPerInstrument ==
    [][\A i \in Instruments :
          breach_history'[i] /= breach_history[i] =>
              (last'.called /\ last'.instrument = i)]_vars

\* C32 witness: a call for usd changed the direction of usd while eurusd
\* had a direction of its own, which it kept.
C32_Witness ==
    /\ last.called /\ last.instrument = "usd" /\ last.before /= last.after
    /\ breach_history["usd"] = "up" /\ breach_history["eurusd"] = "down"

\* the band of C2 holds the call back: the recorded direction is that of the
\* bound reached and the rounded reading has not cleared the extra 0.2 percent
HeldBack(c, p, u, d, dir) ==
    \/ dir = "up" /\ AtOrAboveUpper(c, p, u) /\ ~ClearsUpperBand(c, p, u)
    \/ dir = "down" /\ AtOrBelowLower(c, p, d) /\ ~ClearsLowerBand(c, p, d)

\* C33 as stated: with upper_pct = 0 and previous > 0, _breach returns true
\* for every current > previous, and with lower_pct = 0 for every
\* current < previous, in every hysteresis state.
C33_ZeroThresholdAlwaysTriggers ==
    (last.called /\ last.prev > 0) =>
        /\ (last.up = 0 /\ last.curr > last.prev) => last.result
        /\ (last.down = 0 /\ last.curr < last.prev) => last.result

\* C33 amended: with upper_pct = 0 (previous > 0) and current > previous, or
\* lower_pct = 0 and current < previous, _breach returns true unless the
\* hysteresis band holds the call back, and false when it does.
C33_ZeroThresholdTriggersOutsideBand ==
    (last.called /\ last.prev > 0) =>
        LET held == HeldBack(last.curr, last.prev, last.up, last.down, last.before)
        IN  /\ (last.up = 0 /\ last.curr > last.prev) => (last.result <=> ~held)
            /\ (last.down = 0 /\ last.curr < last.prev) => (last.result <=> ~held)

\* C33 witness: with upper_pct = 0 and direction Up, a reading 0.496 percent
\* above the baseline, beyond the extra band, was a breach.
C33_Witness ==
    /\ last.called /\ last.prev = 100000 /\ last.curr = 100496 /\ last.up = 0
    /\ last.before = "up" /\ last.result

\* C34: for previous > 0 and thresholds >= 0, _breach with
\* current = previous returns false.
C34_EqualReadingNoBreach ==
    (last.called /\ last.prev > 0 /\ last.curr = last.prev) => ~last.result

----------------------------------------------------------------------------
(* Properties of the EUR/USD provider chain and of the rate limiter        *)

\* C38: the chain calls the fallback only if the primary raised; when it
\* returns a rate, get_last_provider names the provider whose rate that is
\* ("brsapi" for the primary, "fastforex" for the fallback); when both raise,
\* RatesService.eur_usd returns None and does not raise; otherwise it returns
\* the provider's value unchanged, after one call of the chain.
C38_ProviderChain ==
    last_chain.called =>
        LET p == last_chain.primary
            f == last_chain.fallback
            r == last_chain.result
        IN  /\ last_chain.fallbackCalled => p.raised
            /\ last_chain.chainCalls = 1
            /\ last_used_provider = last_chain.providerAfter
            /\ (p.raised /\ f.raised) <=> r.none
            /\ ~p.raised => (~r.none /\ r.rate = p.rate
                             /\ last_chain.providerAfter = "brsapi")
            /\ (p.raised /\ ~f.raised) => (~r.none /\ r.rate = f.rate
                                           /\ last_chain.providerAfter = "fastforex")

\* C38 witness: after a call served by the primary, the primary raised and
\* the fallback's rate 1.02 was returned and attributed to fastforex.
C38_Witness ==
    /\ last_chain.called /\ last_chain.providerBefore = "brsapi"
    /\ last_chain.primary.raised /\ last_chain.fallbackCalled
    /\ last_chain.result = [none |-> FALSE, rate |-> 102000]
    /\ last_used_provider = "fastforex"

\* q is what is left of p after dropping entries from its front
IsSuffix(q, p) == \E k \in 0..Len(p) : q = SubSeq(p, k + 1, Len(p))

\* calls of identifier i that returned True at a minute in [a, a + time_window]
GrantedIn(i, a) ==
    Len(SelectSeq(granted[i], LAMBDA t : a <= t /\ t <= a + ConfigOf(i).time_window))

\* C39: for every identifier, the calls that returned True within any
\* interval of length time_window number at most max_requests; a denied call
\* is not recorded as a request; a call for one identifier leaves the
\* record and the block of every other identifier as they were.
C39_WindowBound ==
    /\ [](\A i \in Identifiers :
             \A a \in (clock - ConfigOf(i).time_window)..clock :
                 GrantedIn(i, a) <= ConfigOf(i).max_requests)
    /\ []((last_limit.called /\ ~last_limit.result) =>
             IsSuffix(requests[last_limit.identifier], last_limit.requestsBefore))
    /\ [][\A i \in Identifiers :
             (requests'[i] /= requests[i] \/ blocked'[i] /= blocked[i]) =>
                 last_limit'.identifier = i]_vars

\* C39 witness: the health bucket holds max_requests calls of the last
\* window and its next call was denied, while the other identifier has a
\* request of its own on record.
C39_Witness ==
    /\ last_limit.called /\ last_limit.identifier = "health:chat:1" /\ ~last_limit.result
    /\ Len(granted["health:chat:1"]) = RATE_LIMITS.health_check.max_requests
    /\ requests["short:1"] /= <<>>

\* C40: a call made while the identifier's block is running returns False
\* and leaves the end of the block where it was; a denial for a full window
\* at minute t sets the end of the block to t + block_duration; with a
\* configuration of RATE_LIMITS the first call at or after the end of the
\* block returns True.
C40_BlockHolds ==
    last_limit.called =>
        LET i == last_limit.identifier
            cfg == ConfigOf(i)
            b == last_limit.blockedBefore
            running == b /= -1 /\ last_limit.now < b
        IN  /\ running => (~last_limit.result /\ blocked[i] = b)
            /\ (~last_limit.result /\ ~running) =>
                  blocked[i] = last_limit.now + cfg.block_duration
            /\ (cfg \in {RATE_LIMITS[k] : k \in DOMAIN RATE_LIMITS}
                /\ b /= -1 /\ last_limit.now >= b) => last_limit.result

\* C40 witness: the health bucket was blocked at minute 0 until minute 5,
\* and its call at minute 5 returned True.
C40_Witness ==
    /\ last_limit.called /\ last_limit.identifier = "health:chat:1"
    /\ last_limit.blockedBefore = 5 /\ last_limit.now = 5 /\ last_limit.result

----------------------------------------------------------------------------
(* Further properties of the scheduled cycle and of /post                  *)

\* the baseline's values that are prices or rates (tether_24h_ch is a signed
\* percentage)
BaselineValues ==
    {"usd_toman", "eur_toman", "gold_1g_toman", "eurusd_rate", "tether_price_toman"}

\* C35: once a value of the baseline is positive it stays positive through
\* every step of the scheduled cycles and of /post: no commit puts zero or a
\* negative value in its place.
C35_PositiveBaselineStaysPositive ==
    [][\A k \in BaselineValues :
          (current_state.exists /\ current_state[k] > 0) =>
              (current_state'.exists /\ current_state'[k] > 0)]_vars

\* C36: when a cycle confirmed a breach for an instrument and its send
\* ultimately failed, the next cycle that has the same reading and finds the
\* same baseline reports the breach of that instrument again and attempts
\* the send.
C36_FailedSendBreachRepeated ==
    [][(/\ SendUltimatelyFailed /\ cyc.path = "threshold"
        /\ cyc'.id /= cyc.id
        /\ cyc'.eurusd = cyc.eurusd /\ cyc'.snap = cyc.snap /\ cyc'.tether = cyc.tether
        /\ cyc'.before = cyc.before) =>
            /\ \A i \in DOMAIN cyc.trig : cyc.trig[i] => cyc'.trig[i]
            /\ cyc'.pc = "send"]_vars

\* C37: a cycle that found a baseline and obtained Tether data whose 24h
\* change is at or beyond the Tether threshold attempts a notification, with
\* or without an EUR/USD rate or an IRR snapshot.
C37_TetherBreachAnnounced ==
    (CycleDone /\ cyc.before.exists /\ cyc.tether.ok /\ "tether" \in cyc.expected) =>
        cyc.attempts >= 1

====
